---- MODULE Spec2Model ----
(***************************************************************************)
(* Conversion fallback orchestrator: one job going through                 *)
(* generate_docs_for_soff, the conversion runs it makes                    *)
(* (not_pdf_to_images_webp_libreoffice), the backends of a run, the repair *)
(* of the source archive and the cleanup of the job's files.  The job runs *)
(* the code of new_docx2pdf.py or that of new_optimized.py (job.module).   *)
(***************************************************************************)
EXTENDS Naturals, Integers, Sequences, FiniteSets, TLC

(***************************************************************************)
(* Paths.  A path is base + tags + extension; n numbers the directories    *)
(* tempfile.mkdtemp hands out.  The job identifier is the same in every    *)
(* path of the job and is left out.                                        *)
(***************************************************************************)
Path(base, tag, ext, n) == [base |-> base, tag |-> tag, ext |-> ext, n |-> n]

\* Python's None, as a path no file ever has
None == Path("None", <<>>, "", 0)

\* temp_path = f"temp_copy_{doc_id}{file_type}"
TempPath(file_type) == Path("temp_copy", <<>>, file_type, 0)

\* output_folder = f"images_slide_copy_{doc_id}"
OutputFolder == Path("images_slide_copy", <<>>, "", 0)

\* tempfile.mkdtemp(prefix=...): a directory name nobody has used before
MkDTemp(prefix, k) == Path(prefix, <<>>, "", k)

\* p.replace(old_ext, tag + old_ext): only a path with that extension changes
ReplaceExt(p, old_ext, tag) ==
    IF p.ext = old_ext THEN [p EXCEPT !.tag = Append(p.tag, tag)] ELSE p

\* pptx_path.replace('.pptx', '_compressed.pptx')
CompressedPptxPath(p) == ReplaceExt(p, ".pptx", "_compressed")

\* docx_path.replace('.docx', '_compressed.docx')
CompressedDocxPath(p) == ReplaceExt(p, ".docx", "_compressed")

\* path.replace(".ppt", ".pptx") of a path that ends in .ppt
NormalizedPptxPath(p) == IF p.ext = ".ppt" THEN [p EXCEPT !.ext = ".pptx"] ELSE p

\* path.replace(".pptx", "_repaired.pptx").replace(".docx", "_repaired.docx")
RepairedPath(p) == ReplaceExt(ReplaceExt(p, ".pptx", "_repaired"), ".docx", "_repaired")

\* abs_ppt.lower().endswith('.docx')
IsDocx(p) == p.ext = ".docx"

Modules == {"new_docx2pdf", "new_optimized"}
FileTypes == {".pptx", ".ppt", ".doc", ".docx", ".pdf", ".txt"}
OfficeTypes == {".pptx", ".ppt", ".doc", ".docx"}

(***************************************************************************)
(* Exceptions a conversion run raises into generate_docs_for_soff.         *)
(* crash says whether str(e).lower() mentions 'segmentation fault',        *)
(* 'segfault', 'crashed' or 'crash'.                                       *)
(***************************************************************************)
Exc(kind, crash) == [kind |-> kind, crash |-> crash]
NoExc == Exc("none", FALSE)

\* history events
Ev(ev, art, info) == [ev |-> ev, art |-> art, info |-> info]

VARIABLES
    pc,               \* position of the job in generate_docs_for_soff
    job,              \* the job's inputs: module, declared type, file URL,
                      \* ENABLE_UNOCONV
    fs,               \* the paths that exist on disk
    temp_path,        \* locals of generate_docs_for_soff
    output_folder,
    compressed,
    repaired,
    file_to_convert,
    stage,            \* the call of not_pdf_to_images_webp_libreoffice being made
    run,              \* locals of the current not_pdf_to_images_webp_libreoffice
    children,         \* the conversion child processes that are alive
    exc,              \* the exception being raised, NoExc if none
    retval,           \* the value of the return statement reached
    images,           \* image_paths, pages_count are bound
    delivered,        \* the images and page count were submitted to the sink
    mk,               \* the number of mkdtemp directories handed out
    log               \* history of the runs and repairs of the job

vars == <<pc, job, fs, temp_path, output_folder, compressed, repaired,
          file_to_convert, stage, run, children, exc, retval, images,
          delivered, mk, log>>

locals == <<temp_path, output_folder, compressed, repaired, file_to_convert>>

(***************************************************************************)
(* The supervision of one backend attempt, with time (docx_to_pdf_unoconv, *)
(* docx_to_pdf_docx2pdf, docx_to_pdf_pypandoc, the soffice call of         *)
(* not_pdf_to_images_webp_libreoffice, the soffice call of                 *)
(* try_repair_office_file).  Time is counted in half seconds.              *)
(***************************************************************************)
VARIABLES
    attempt,          \* the attempt: its backend, its timeout, where its code is
    process,          \* the child: alive, how it behaves, its exit status, its PDF
    clock,            \* half seconds since the child was started
    signals,          \* the signals sent to the child, in order
    outcome           \* what the attempt returned or raised, "pending" before

supvars == <<attempt, process, clock, signals, outcome>>

(***************************************************************************)
(* The queue of process_doc_poster_generate_queue, its producer and its    *)
(* worker processes.                                                       *)
(***************************************************************************)
VARIABLES
    call,             \* the call: its module and its argument workers
    queue,            \* the items in the Queue, oldest first
    producer,         \* the producer: where it is, the iterations made, the
                      \* doc_id in hand, the sentinels put
    worker,           \* per worker process: where it is, its doc_id, the
                      \* sentinels it got
    enqueued,         \* history: per item, how often it was put
    processed         \* history: per doc_id, the calls of
                      \* generate_docs_for_soff that returned

queuevars == <<call, queue, producer, worker, enqueued, processed>>

(***************************************************************************)
(* try_repair_office_file: the file it is given, the archive, the          *)
(* directory it is extracted to, the archive that is packed again.         *)
(***************************************************************************)
VARIABLES
    repair_path,      \* the argument path; the .pptx written from a .ppt replaces it
    disk,             \* the files try_repair_office_file reads and writes
    zip_ref,          \* the archive opened: its members, those that do not extract
    todo,             \* the names of zip_ref.namelist() not yet extracted
    temp_dir,         \* the files in the directory the archive is extracted to
    missing_files,    \* the names recorded as missing, in order
    repair_at,        \* where try_repair_office_file is
    repaired_zip,     \* the members of the archive that was packed last
    repair_result,    \* what the call returned
    calls             \* history: the calls that have returned

repairvars == <<repair_path, disk, zip_ref, todo, temp_dir, missing_files, repair_at,
                repaired_zip, repair_result, calls>>

\* a file that is not a zip container
NotZip == [zip |-> FALSE, members |-> {}, corrupt |-> {}]

\* try_repair_office_file has not been called
RepairIdle ==
    /\ repair_path = None
    /\ disk = <<>>
    /\ zip_ref = NotZip
    /\ todo = <<>>
    /\ temp_dir = {}
    /\ missing_files = <<>>
    /\ repair_at = "idle"
    /\ repaired_zip = {}
    /\ repair_result = None
    /\ calls = 0

(***************************************************************************)
(* Rasterization and upload: the PDF that is rendered, the images written  *)
(* and the request that delivers them.                                     *)
(***************************************************************************)
VARIABLES
    pdf_file,         \* the PDF: from an office document or the source itself,
                      \* and the pixel width of each page as rendered
    pages,            \* what convert_from_path returned, not yet saved
    saved_paths,      \* the images written, in the order of the list returned
    raster_at,        \* where the rasterization and the upload are
    patched           \* the files and the page_count given to session.patch

rastervars == <<pdf_file, pages, saved_paths, raster_at, patched>>

\* no request has been sent
NoPatch == [files |-> <<>>, page_count |-> 0]

\* nothing is being rasterized
RasterIdle ==
    /\ pdf_file = [office |-> FALSE, widths |-> <<>>]
    /\ pages = <<>>
    /\ saved_paths = <<>>
    /\ raster_at = "idle"
    /\ patched = NoPatch

(***************************************************************************)
(* The timeout of a conversion, computed for the files of two calls.       *)
(***************************************************************************)
VARIABLES
    getsize,          \* os.path.getsize(abs_ppt) of each call, in bytes
    conversion_timeout \* the timeout each call computed, 0 before it has

sizevars == <<getsize, conversion_timeout>>

\* no call has been made
SizeIdle ==
    /\ getsize = <<>>
    /\ conversion_timeout = <<>>

(***************************************************************************)
(* convert_doc_task under Celery: per doc_id the message of the task.      *)
(***************************************************************************)
VARIABLES
    task              \* per doc_id: the state of the task, request.retries of
                      \* the current message, history: the runs so far and
                      \* what generate_docs_for_soff returned last

taskvars == <<task>>

\* enqueue_doc_id has not been called
TaskIdle == task = <<>>

(***************************************************************************)
(* The conversion children of the workers and cleanup_libreoffice_processes *)
(***************************************************************************)
VARIABLES
    conv              \* per worker: the attempt it is in, whether its child
                      \* is alive, history: the worker whose pkill ended it

killvars == <<conv>>

\* no worker has been started
KillIdle == conv = <<>>

(***************************************************************************)
(* compress_pptx_file / compress_docx_file and the choice of the file of   *)
(* the first run.                                                          *)
(***************************************************************************)
VARIABLES
    source,           \* the source copy: its type and size, the switches and
                      \* what the compression tool will do with it
    variant,          \* what compress_*_file returned and left on disk
    first_run         \* file_to_convert of the first conversion run

compvars == <<source, variant, first_run>>

\* source(...): the downloaded copy and what happens when it is compressed
Source(file_type, file_size, enable_pptx, enable_docx, tool, compressed_size) ==
    [file_type |-> file_type, file_size |-> file_size,
     enable_pptx |-> enable_pptx, enable_docx |-> enable_docx,
     tool |-> tool, compressed_size |-> compressed_size]

\* compressed = None (line 841) and the compressed file on disk
Variant(returned, on_disk, done) ==
    [returned |-> returned, on_disk |-> on_disk, done |-> done]

\* no source has been downloaded
CompIdle ==
    /\ source = Source("none", 0, FALSE, FALSE, "none", 0)
    /\ variant = Variant(None, FALSE, FALSE)
    /\ first_run = None

\* the variables the job of generate_docs_for_soff does not touch
elsewhere == <<supvars, queuevars, repairvars, rastervars, sizevars, taskvars,
              killvars, compvars>>

\* the largest identifier the job source hands out
MaxDocId == 2

DocIds == 1..MaxDocId

\* queue.put(None): the poison pill; no doc_id is 0 ('if not doc_id: break')
Sentinel == 0

\* what the queue can hold
Items == DocIds \cup {Sentinel}

NoProducer == [at |-> "idle", i |-> 0, doc_id |-> Sentinel, stops |-> 0]

\* process_doc_poster_generate_queue has not been called
QueueIdle ==
    /\ call = [module |-> "none", workers |-> 0]
    /\ queue = <<>>
    /\ producer = NoProducer
    /\ worker = <<>>
    /\ enqueued = [x \in Items |-> 0]
    /\ processed = [d \in DocIds |-> 0]

\* RLIMIT_AS and RLIMIT_CPU of a process that nothing has set: those the
\* worker was started with
Inherited == [as |-> "inherited", cpu |-> "inherited"]

NoProcess == [alive |-> FALSE, hangs |-> FALSE, heeds_term |-> FALSE,
              returncode |-> "none", pdf |-> FALSE, rlimits |-> Inherited]

NoAttempt == [backend |-> "none", timeout |-> 0, at |-> "idle"]

\* no attempt is being supervised
SupIdle ==
    /\ attempt = NoAttempt
    /\ process = NoProcess
    /\ clock = 0
    /\ signals = <<>>
    /\ outcome = "pending"

\* 1024 * 1024 bytes
MB == 1024 * 1024

\* lines 523-528 without the min
ConversionTimeoutUncapped(size) ==
    IF size > 5 * MB THEN 120 + ((size - 5 * MB) * 30) \div MB ELSE 120

\* lines 522-528; file_size_mb is size / MB, and int() of a product that is
\* not negative is the quotient rounded down
ConversionTimeout(size) ==
    IF size > 5 * MB
    THEN LET scaled == 120 + ((size - 5 * MB) * 30) \div MB
         IN IF scaled < 600 THEN scaled ELSE 600
    ELSE 120

\* os.path.getsize(abs_ppt) of the artifacts of the runs: one under and one
\* over 5 MB
RunSizes == {2 * MB, 10 * MB}

\* min(conversion_timeout, 60), the timeout docx_to_pdf_unoconv is given
UnoconvTimeoutOf(t) == IF t < 60 THEN t ELSE 60

\* the timeout argument of an alternative (lines 542-545)
AltTimeout(name, t) == IF name = "unoconv" THEN UnoconvTimeoutOf(t) ELSE t

NoRun == [ppt_path |-> None, abs_output |-> None, profile_dir |-> None,
          alternatives |-> <<>>, pdf_path |-> FALSE, timeout |-> 0,
          alt_timeout |-> 0]

Init ==
    /\ pc = "start"
    /\ job \in [module : Modules, file_type : FileTypes, file_url : BOOLEAN,
                enable_unoconv : BOOLEAN]
    /\ job.module = "new_optimized" => job.enable_unoconv
    /\ fs = {}
    /\ temp_path = None
    /\ output_folder = None
    /\ compressed = None
    /\ repaired = None
    /\ file_to_convert = None
    /\ stage = "none"
    /\ run = NoRun
    /\ children = {}
    /\ exc = NoExc
    /\ retval = "unset"
    /\ images = FALSE
    /\ delivered = FALSE
    /\ mk = 0
    /\ log = <<>>
    /\ SupIdle
    /\ QueueIdle
    /\ RepairIdle
    /\ RasterIdle /\ SizeIdle /\ TaskIdle
    /\ KillIdle /\ CompIdle

(***************************************************************************)
(* generate_docs_for_soff: metadata, download, dispatch on the type        *)
(***************************************************************************)

\* session.get(...).json() or data['document'][...] raises: nothing is bound yet
FetchFails ==
    /\ pc = "start"
    /\ pc' = "outer_except"
    /\ exc' = Exc("Exception", FALSE)
    /\ UNCHANGED <<job, fs, locals, stage, run, children, retval, images,
                   delivered, mk, log>>
    /\ UNCHANGED elsewhere

\* if not file_url: return True; else the two paths are bound
FetchMetadata ==
    /\ pc = "start"
    /\ IF ~job.file_url
       THEN /\ retval' = "True"
            /\ pc' = "outer_finally"
            /\ UNCHANGED <<temp_path, output_folder>>
       ELSE /\ temp_path' = TempPath(job.file_type)
            /\ output_folder' = OutputFolder
            /\ pc' = "download"
            /\ UNCHANGED retval
    /\ UNCHANGED <<job, fs, compressed, repaired, file_to_convert, stage, run,
                   children, exc, images, delivered, mk, log>>
    /\ UNCHANGED elsewhere

\* the dispatch with a PDF taken as an office document
DispatchPdfConverted(file_type, exists) ==
    IF file_type \in OfficeTypes \cup {".pdf"} /\ exists THEN "convert"
    ELSE "return_true"

\* the dispatch with every type that is no office type taken as a PDF
DispatchElsePdf(file_type, exists) ==
    IF file_type \in OfficeTypes /\ exists THEN "convert" ELSE "pdf_to_images"

\* where generate_docs_for_soff goes after download_file returned
Dispatch(file_type, exists) ==
    IF file_type \in OfficeTypes /\ exists THEN "convert"
    ELSE IF file_type = ".pdf" THEN "pdf_to_images"
    ELSE "return_true"

\* download_file raises: the file may have been opened for writing already
DownloadFails ==
    /\ pc = "download"
    /\ \E partial \in BOOLEAN :
          fs' = IF partial THEN fs \cup {temp_path} ELSE fs
    /\ exc' = Exc("Exception", FALSE)
    /\ pc' = "outer_except"
    /\ UNCHANGED <<job, locals, stage, run, children, retval, images,
                   delivered, mk, log>>
    /\ UNCHANGED elsewhere

Download ==
    /\ pc = "download"
    /\ fs' = fs \cup {temp_path}
    /\ LET to == Dispatch(job.file_type, temp_path \in fs')
       IN /\ retval' = IF to = "return_true" THEN "True" ELSE retval
          /\ pc' = IF to = "return_true" THEN "outer_finally"
                   ELSE IF to = "pdf_to_images" THEN to
                   ELSE IF job.module = "new_docx2pdf" THEN "compress"
                   ELSE "run_begin"
          /\ stage' = IF to = "convert" /\ job.module = "new_optimized"
                      THEN "first" ELSE stage
    /\ UNCHANGED <<job, locals, run, children, exc, images, delivered, mk, log>>
    /\ UNCHANGED elsewhere

(***************************************************************************)
(* Compression of the source before the first run (lines 842-854)          *)
(***************************************************************************)

\* the path compress_pptx_file / compress_docx_file writes for this type
CompressedFor(file_type, p) ==
    IF file_type = ".pptx" THEN CompressedPptxPath(p)
    ELSE IF file_type = ".docx" THEN CompressedDocxPath(p)
    ELSE None

\* compress_*_file returns None (disabled, outside the size window, tool
\* missing, failed, timed out, reduction under 3%): no variant is left behind
NoCompression ==
    /\ pc = "compress"
    /\ compressed' = None
    /\ file_to_convert' = temp_path
    /\ stage' = "first"
    /\ pc' = "run_begin"
    /\ UNCHANGED <<job, fs, temp_path, output_folder, repaired, run, children,
                   exc, retval, images, delivered, mk, log>>
    /\ UNCHANGED elsewhere

\* compress_*_file returns the path of the variant it wrote
Compress ==
    /\ pc = "compress"
    /\ CompressedFor(job.file_type, temp_path) # None
    /\ compressed' = CompressedFor(job.file_type, temp_path)
    /\ fs' = fs \cup {compressed'}
    /\ file_to_convert' = IF compressed' # None /\ compressed' \in fs'
                          THEN compressed' ELSE temp_path
    /\ stage' = "first"
    /\ pc' = "run_begin"
    /\ UNCHANGED <<job, temp_path, output_folder, repaired, run, children,
                   exc, retval, images, delivered, mk, log>>
    /\ UNCHANGED elsewhere

(***************************************************************************)
(* not_pdf_to_images_webp_libreoffice: one conversion run                  *)
(***************************************************************************)

\* the artifact the call made at this stage is given
Artifact == IF stage = "first"
            THEN IF job.module = "new_docx2pdf" THEN file_to_convert ELSE temp_path
            ELSE IF stage = "original" THEN temp_path
            ELSE repaired

\* which variant that artifact is
ArtKind == IF stage = "repaired" THEN "repaired"
           ELSE IF stage = "first" /\ compressed # None /\ file_to_convert = compressed
                THEN "compressed"
           ELSE "original"

\* the alternatives with pypandoc before docx2pdf
AlternativesPypandocFirst(is_docx, enable_unoconv) ==
    IF ~is_docx THEN <<>>
    ELSE (IF enable_unoconv THEN <<"unoconv">> ELSE <<>>) \o <<"pypandoc", "docx2pdf">>

\* the alternatives tried before LibreOffice, in order (lines 534-546)
Alternatives(is_docx, enable_unoconv) ==
    IF ~is_docx THEN <<>>
    ELSE (IF enable_unoconv THEN <<"unoconv">> ELSE <<>>) \o <<"docx2pdf", "pypandoc">>

\* lines 517-546: the output directories are made and the backends chosen
RunBegin ==
    /\ pc = "run_begin"
    /\ job.module = "new_docx2pdf"
    /\ LET out == MkDTemp("libreoffice_out", mk + 1)
           alts == Alternatives(IsDocx(Artifact), job.enable_unoconv)
       IN /\ \E size \in RunSizes :
                run' = [ppt_path |-> Artifact, abs_output |-> out,
                        profile_dir |-> None, alternatives |-> alts,
                        pdf_path |-> FALSE,
                        timeout |-> ConversionTimeout(size),
                        alt_timeout |-> 0]
          /\ fs' = fs \cup {out, output_folder}
          /\ pc' = IF alts # <<>> THEN "alt" ELSE "lo_start"
    /\ mk' = mk + 1
    /\ log' = Append(log, Ev("run_start", ArtKind, ""))
    /\ UNCHANGED <<job, locals, stage, children, exc, retval, images, delivered>>
    /\ UNCHANGED elsewhere

\* the loop mutated: it goes on to the next alternative after a success
AfterAlternativeNoBreak(got_pdf, rest) ==
    IF rest # <<>> THEN "alt"
    ELSE IF got_pdf THEN "rasterize" ELSE "lo_start"

\* lines 548-569: break on the first PDF, else the next alternative, else LibreOffice
AfterAlternative(got_pdf, rest) ==
    IF got_pdf THEN "rasterize"
    ELSE IF rest # <<>> THEN "alt"
    ELSE "lo_start"

\* an alternative has returned (a PDF path or None) or raised
AlternativeReturns(got_pdf) ==
    /\ run' = [run EXCEPT !.alternatives = Tail(@), !.pdf_path = got_pdf,
                           !.alt_timeout = 0]
    /\ pc' = AfterAlternative(got_pdf, Tail(run.alternatives))

Child(name, killed) == [name |-> name, k |-> mk, killed |-> killed]

\* 'which unoconv' fails, or docx2pdf / pypandoc cannot be imported: None, no child
AltUnavailable ==
    /\ pc = "alt"
    /\ AlternativeReturns(FALSE)
    /\ UNCHANGED <<job, fs, locals, stage, children, exc, retval, images,
                   delivered, mk, log>>
    /\ UNCHANGED elsewhere

\* the alternative starts its converter
AltStart ==
    /\ pc = "alt"
    /\ children' = children \cup {Child(Head(run.alternatives), FALSE)}
    /\ pc' = IF Head(run.alternatives) = "unoconv" THEN "unoconv_poll" ELSE "alt_wait"
    /\ run' = [run EXCEPT !.alt_timeout =
                              AltTimeout(Head(run.alternatives), run.timeout)]
    /\ UNCHANGED <<job, fs, locals, stage, exc, retval, images, delivered,
                   mk, log>>
    /\ UNCHANGED elsewhere

\* lines 429-446: what docx_to_pdf_unoconv returns once the child has exited
UnoconvResult(rc_zero, pdf_exists) == rc_zero /\ pdf_exists

\* the unoconv child exits by itself (poll() is not None)
UnoconvExit ==
    /\ pc = "unoconv_poll"
    /\ \E rc_zero \in BOOLEAN, pdf_exists \in BOOLEAN :
          AlternativeReturns(UnoconvResult(rc_zero, pdf_exists))
    /\ children' = children \ {Child("unoconv", FALSE)}
    /\ UNCHANGED <<job, fs, locals, stage, exc, retval, images, delivered, mk, log>>
    /\ UNCHANGED elsewhere

\* lines 395-418: terminate, kill if still running, pkill, wait(timeout=2) whose
\* expiry is swallowed: the child has exited by then, or it has not
UnoconvTimeout ==
    /\ pc = "unoconv_poll"
    /\ \E exited \in BOOLEAN :
          children' = IF exited THEN children \ {Child("unoconv", FALSE)}
                      ELSE (children \ {Child("unoconv", FALSE)})
                           \cup {Child("unoconv", TRUE)}
    /\ AlternativeReturns(FALSE)
    /\ UNCHANGED <<job, fs, locals, stage, exc, retval, images, delivered, mk, log>>
    /\ UNCHANGED elsewhere

\* docx2pdf's convert / pypandoc's convert_file returns or raises: a PDF or None
AltFinish ==
    /\ pc = "alt_wait"
    /\ \E got_pdf \in BOOLEAN :
          AlternativeReturns(got_pdf)
    /\ children' = children \ {Child(Head(run.alternatives), FALSE)}
    /\ UNCHANGED <<job, fs, locals, stage, exc, retval, images, delivered, mk, log>>
    /\ UNCHANGED elsewhere

\* a run ends by raising e into generate_docs_for_soff: its locals are gone
RunRaises(e, info) ==
    /\ exc' = e
    /\ pc' = "raised"
    /\ run' = NoRun
    /\ log' = Append(log, Ev("run_fail", ArtKind, info))

\* new_optimized, lines 51-53 and 23-37: the output directories are made and
\* convert_to_pdf starts unoconv under subprocess.run(timeout=660)
OptRunBegin ==
    /\ pc = "run_begin"
    /\ job.module = "new_optimized"
    /\ LET out == MkDTemp("libreoffice_out", mk + 1)
       IN /\ run' = [ppt_path |-> Artifact, abs_output |-> out,
                     profile_dir |-> None, alternatives |-> <<>>,
                     pdf_path |-> FALSE, timeout |-> 0, alt_timeout |-> 0]
          /\ fs' = fs \cup {out, output_folder}
    /\ mk' = mk + 1
    /\ children' = children \cup {[name |-> "unoconv", k |-> mk + 1, killed |-> FALSE]}
    /\ log' = Append(log, Ev("run_start", ArtKind, ""))
    /\ pc' = "convert_to_pdf"
    /\ UNCHANGED <<job, locals, stage, exc, retval, images, delivered>>
    /\ UNCHANGED elsewhere

\* new_optimized, lines 37-42 and 55-56: subprocess.run has waited for the child
\* (it kills it on timeout); a timeout, a nonzero exit and a missing PDF each
\* raise RuntimeError
OptConvertEnds ==
    /\ pc = "convert_to_pdf"
    /\ children' = children \ {[name |-> "unoconv", k |-> mk, killed |-> FALSE]}
    /\ \E end \in {"timeout", "nonzero", "no_pdf", "returned_pdf"} :
          IF end = "returned_pdf"
          THEN /\ run' = [run EXCEPT !.pdf_path = TRUE]
               /\ pc' = "rasterize"
               /\ UNCHANGED <<exc, log>>
          ELSE RunRaises(Exc("RuntimeError", FALSE), end)
    /\ UNCHANGED <<job, fs, locals, stage, retval, images, delivered, mk>>
    /\ UNCHANGED elsewhere

\* lines 575-595: the profile directory is made and soffice is started
LoStart ==
    /\ pc = "lo_start"
    /\ LET profile == MkDTemp("libreoffice_profile", mk + 1)
       IN /\ run' = [run EXCEPT !.profile_dir = profile]
          /\ fs' = fs \cup {profile}
    /\ mk' = mk + 1
    /\ children' = children \cup {[name |-> "soffice", k |-> mk + 1, killed |-> FALSE]}
    /\ pc' = "lo_poll"
    /\ UNCHANGED <<job, locals, stage, exc, retval, images, delivered, log>>
    /\ UNCHANGED elsewhere

\* line 628: is_crash of the LibreOffice attempt
LoIsCrash(rc, segv) == rc = "signal" \/ segv

\* lines 626-640: how the exit of soffice is classified.  rc is its exit status,
\* pdf whether abs_output holds a PDF, segv whether stderr mentions a
\* segmentation fault, crashword whether the captured output mentions a crash
LoOutcome(rc, pdf, segv, crashword) ==
    IF rc # "zero"
    THEN [info |-> IF LoIsCrash(rc, segv) THEN "crashed"
                   ELSE IF pdf THEN "nonzero_pdf" ELSE "nonzero",
          exc |-> Exc("RuntimeError", LoIsCrash(rc, segv) \/ crashword)]
    ELSE IF ~pdf
    THEN [info |-> "no_pdf", exc |-> Exc("RuntimeError", segv \/ crashword)]
    ELSE [info |-> "returned_pdf", exc |-> NoExc]

\* soffice exits by itself
LoExit ==
    /\ pc = "lo_poll"
    /\ children' = children \ {[name |-> "soffice", k |-> mk, killed |-> FALSE]}
    /\ \E rc \in {"zero", "nonzero", "signal"}, pdf \in BOOLEAN,
          segv \in BOOLEAN, crashword \in BOOLEAN :
          LET o == LoOutcome(rc, pdf, segv, crashword)
          IN IF o.exc # NoExc
             THEN RunRaises(o.exc, o.info)
             ELSE /\ run' = [run EXCEPT !.pdf_path = TRUE]
                  /\ pc' = "rasterize"
                  /\ UNCHANGED <<exc, log>>
    /\ UNCHANGED <<job, fs, locals, stage, retval, images, delivered, mk>>
    /\ UNCHANGED elsewhere

\* lines 602-606: elapsed > conversion_timeout: kill, wait, raise TimeoutExpired
LoTimeout ==
    /\ pc = "lo_poll"
    /\ children' = children \ {[name |-> "soffice", k |-> mk, killed |-> FALSE]}
    /\ RunRaises(Exc("TimeoutExpired", FALSE), "timeout")
    /\ UNCHANGED <<job, fs, locals, stage, retval, images, delivered, mk>>
    /\ UNCHANGED elsewhere

\* lines 661-664: the directories the run removes before it returns
RunCleanup(files, r) == files \ {r.abs_output, r.profile_dir}

\* the call on the original with the defaults of the signature (line 513)
RunArgsDefaultForOriginal(st) ==
    IF st = "original" THEN "quality=15,max_width=800"
    ELSE "quality=60,max_width=800"

\* lines 857-862, 874-879, 885-890, 900-905, 920-925, 931-936, 946-951: the
\* quality and max_width every call of not_pdf_to_images_webp_libreoffice
\* is given, whichever artifact it is made on
RunArgs(st) == "quality=60,max_width=800"

\* lines 642-666: the pages are rendered and saved, the run's directories removed
Rasterize ==
    /\ pc = "rasterize"
    /\ fs' = RunCleanup(fs, run)
    /\ images' = TRUE
    /\ run' = NoRun
    /\ pc' = "inner_finally"
    /\ log' = Append(log, Ev("run_ok", ArtKind, RunArgs(stage)))
    /\ UNCHANGED <<job, locals, stage, children, exc, retval, delivered, mk>>
    /\ UNCHANGED elsewhere

\* convert_from_path or the saving of a page raises
RasterizeFails ==
    /\ pc = "rasterize"
    /\ \E crashword \in BOOLEAN :
          RunRaises(Exc("Exception", crashword), "raster")
    /\ UNCHANGED <<job, fs, locals, stage, children, retval, images,
                   delivered, mk>>
    /\ UNCHANGED elsewhere

(***************************************************************************)
(* generate_docs_for_soff: the fallback chain (lines 856-959)              *)
(***************************************************************************)

\* the handlers mutated: a timeout of the compressed variant goes to repair
FallbackDecisionTimeoutToRepair(st, e, comp, ftc) ==
    IF st = "first"
    THEN IF e.kind = "TimeoutExpired" THEN "repair"
         ELSE IF comp # None /\ ftc = comp /\ e.crash THEN "original" ELSE "repair"
    ELSE IF st = "original" THEN "repair"
    ELSE "propagate"

\* the handlers mutated: a crash of the compressed variant goes to repair
FallbackDecisionCrashToRepair(st, e, comp, ftc) ==
    IF st = "first"
    THEN IF e.kind = "TimeoutExpired"
         THEN IF comp # None /\ ftc = comp THEN "original" ELSE "repair"
         ELSE "repair"
    ELSE IF st = "original" THEN "repair"
    ELSE "propagate"

\* the handlers mutated: a failure of the repaired artifact is repaired again
FallbackDecisionRepairAgain(st, e, comp, ftc) ==
    IF st = "first"
    THEN IF e.kind = "TimeoutExpired"
         THEN IF comp # None /\ ftc = comp THEN "original" ELSE "repair"
         ELSE IF comp # None /\ ftc = comp /\ e.crash THEN "original" ELSE "repair"
    ELSE "repair"

\* lines 864-954: what the handlers do with the exception e of the run made at
\* stage st: run the original, repair, or let it propagate
FallbackDecision(st, e, comp, ftc) ==
    IF st = "first"
    THEN IF e.kind = "TimeoutExpired"
         THEN IF comp # None /\ ftc = comp THEN "original" ELSE "repair"
         ELSE IF comp # None /\ ftc = comp /\ e.crash THEN "original" ELSE "repair"
    ELSE IF st = "original" THEN "repair"
    ELSE "propagate"

Handler ==
    /\ pc = "raised"
    /\ LET d == FallbackDecision(stage, exc, compressed, file_to_convert)
       IN /\ pc' = IF d = "original" THEN "run_begin"
                   ELSE IF d = "repair" THEN "repair"
                   ELSE "inner_finally"
          /\ stage' = IF d = "original" THEN "original" ELSE stage
          /\ exc' = IF d = "propagate" THEN exc ELSE NoExc
    /\ UNCHANGED <<job, fs, locals, run, children, retval, images, delivered,
                   mk, log>>
    /\ UNCHANGED elsewhere

\* the repair is given the file the failed run was made on
RepairSourceFailedFile(st, comp, ftc, tp) ==
    IF st = "original" THEN tp ELSE ftc

\* which of the job's files a path is
KindOf(p, tp, comp) ==
    IF p = tp THEN "original" ELSE IF p = comp THEN "compressed" ELSE "other"

\* lines 883, 897, 929, 943: the file try_repair_office_file is given
RepairSource(st, comp, ftc, tp) ==
    IF st = "original" THEN tp
    ELSE IF comp # None THEN tp ELSE ftc

\* try_repair_office_file (lines 749-819) and the 'if repaired:' after it.
\* norm: the .ppt normalization raised / left no file / wrote the .pptx;
\* zip: zipfile.is_zipfile; extracted: the archive could be opened and repacked
Repair ==
    /\ pc = "repair"
    /\ \E norm \in {"raise", "nofile", "ok"}, zip \in BOOLEAN, extracted \in BOOLEAN :
          LET src == IF job.module = "new_docx2pdf"
                     THEN RepairSource(stage, compressed, file_to_convert, temp_path)
                     ELSE temp_path
              legacy == src.ext = ".ppt"
              path == IF legacy THEN NormalizedPptxPath(src) ELSE src
              fs1 == IF legacy /\ norm = "ok" THEN fs \cup {path} ELSE fs
              dir == MkDTemp("repair_office", mk + 1)
              result == IF legacy /\ norm # "ok" THEN None
                        ELSE IF ~zip THEN None
                        ELSE IF ~extracted THEN None
                        ELSE RepairedPath(path)
              made_dir == ~(legacy /\ norm # "ok") /\ zip
          IN /\ (~legacy => norm = "ok")
             /\ repaired' = result
             /\ fs' = (IF made_dir THEN fs1 \cup {dir} ELSE fs1)
                      \cup (IF result # None THEN {result} ELSE {})
             /\ mk' = IF made_dir THEN mk + 1 ELSE mk
             /\ log' = Append(log, Ev("repair", KindOf(src, temp_path, compressed),
                                      IF result # None THEN "repaired" ELSE "none"))
             /\ IF result # None
                THEN /\ stage' = "repaired"
                     /\ pc' = "run_begin"
                     /\ UNCHANGED retval
                ELSE /\ retval' = "False"
                     /\ pc' = "inner_finally"
                     /\ UNCHANGED stage
    /\ UNCHANGED <<job, temp_path, output_folder, compressed, file_to_convert,
                   run, children, exc, images, delivered>>
    /\ UNCHANGED elsewhere

\* lines 955-959: the files the inner finally removes
InnerFinallyRemoves(rep, comp) == {rep, comp}

\* new_optimized, lines 266-270: the files its inner finally removes
OptInnerFinallyRemoves(rep, tp) == {rep, tp}

InnerFinally ==
    /\ pc = "inner_finally"
    /\ fs' = fs \ (IF job.module = "new_docx2pdf"
                    THEN InnerFinallyRemoves(repaired, compressed)
                    ELSE OptInnerFinallyRemoves(repaired, temp_path))
    /\ pc' = IF exc # NoExc THEN "outer_except"
             ELSE IF retval # "unset" THEN "outer_finally"
             ELSE "upload"
    /\ UNCHANGED <<job, locals, stage, run, children, exc, retval, images,
                   delivered, mk, log>>
    /\ UNCHANGED elsewhere

(***************************************************************************)
(* generate_docs_for_soff: PDF sources, upload, the outer handlers         *)
(***************************************************************************)

\* lines 961-966 and 669-697: a PDF source is rendered as it is
PdfToImages ==
    /\ pc = "pdf_to_images"
    /\ fs' = fs \cup {output_folder}
    /\ \E ok \in BOOLEAN :
          IF ok THEN /\ images' = TRUE
                     /\ pc' = "upload"
                     /\ UNCHANGED exc
          ELSE /\ exc' = Exc("Exception", FALSE)
               /\ pc' = "outer_except"
               /\ UNCHANGED images
    /\ UNCHANGED <<job, locals, stage, run, children, retval, delivered, mk, log>>
    /\ UNCHANGED elsewhere

\* lines 970-988: the images are opened and patched to the sink, or this raises
Upload ==
    /\ pc = "upload"
    /\ \E ok \in BOOLEAN :
          IF ok THEN /\ delivered' = TRUE
                     /\ pc' = "outer_finally"
                     /\ UNCHANGED exc
          ELSE /\ exc' = Exc("Exception", FALSE)
               /\ pc' = "outer_except"
               /\ UNCHANGED delivered
    /\ UNCHANGED <<job, fs, locals, stage, run, children, retval, images, mk, log>>
    /\ UNCHANGED elsewhere

\* the clause mutated: except RuntimeError
CaughtRuntimeErrorOnly(e) == e.kind = "RuntimeError"

\* `except Exception as e` (line 990; new_optimized line 280): RuntimeError,
\* subprocess.TimeoutExpired and what requests, zipfile, PIL and open raise
\* are all subclasses of Exception
Caught(e) == e.kind \in {"Exception", "RuntimeError", "TimeoutExpired"}

\* lines 990-991: except Exception: the error is printed and dropped
OuterExcept ==
    /\ pc = "outer_except"
    /\ exc' = IF Caught(exc) THEN NoExc ELSE exc
    /\ pc' = "outer_finally"
    /\ UNCHANGED <<job, fs, locals, stage, run, children, retval, images,
                   delivered, mk, log>>
    /\ UNCHANGED elsewhere

\* only the source copy is removed
OuterFinallyRemovesSourceOnly(tp, comp, out) == {tp}

\* lines 993-1000: the files the outer finally removes
OuterFinallyRemoves(tp, comp, out) == {tp, comp, out}

\* lines 993-1002: cleanup, then the return reached earlier or 'return True'
OuterFinally ==
    /\ pc = "outer_finally"
    /\ fs' = fs \ OuterFinallyRemoves(temp_path, compressed, output_folder)
    /\ retval' = IF exc # NoExc THEN retval
               ELSE IF retval = "unset" THEN "True" ELSE retval
    /\ pc' = IF exc # NoExc THEN "escaped" ELSE "done"
    /\ UNCHANGED <<job, locals, stage, run, children, exc, images, delivered,
                   mk, log>>
    /\ UNCHANGED elsewhere

\* a child that was sent SIGKILL and not waited for exits
ChildDies ==
    /\ \E c \in children :
          /\ c.killed
          /\ children' = children \ {c}
    /\ UNCHANGED <<pc, job, fs, locals, stage, run, exc, retval, images,
                   delivered, mk, log>>
    /\ UNCHANGED elsewhere

Next ==
    \/ FetchFails
    \/ FetchMetadata
    \/ DownloadFails
    \/ Download
    \/ NoCompression
    \/ Compress
    \/ RunBegin
    \/ AltUnavailable
    \/ AltStart
    \/ UnoconvExit
    \/ UnoconvTimeout
    \/ AltFinish
    \/ OptRunBegin
    \/ OptConvertEnds
    \/ LoStart
    \/ LoExit
    \/ LoTimeout
    \/ Rasterize
    \/ RasterizeFails
    \/ Handler
    \/ Repair
    \/ InnerFinally
    \/ PdfToImages
    \/ Upload
    \/ OuterExcept
    \/ OuterFinally
    \/ ChildDies

Spec == Init /\ [][Next]_<<vars, elsewhere>>

(***************************************************************************)
(* Properties                                                              *)
(***************************************************************************)

Returned == pc = "done"

\* the document has a file URL and a type generate_docs_for_soff converts
Supported == job.file_url /\ job.file_type \in OfficeTypes \cup {".pdf"}

HasTag(p, t) == \E i \in DOMAIN p.tag : p.tag[i] = t

\* positions of the log holding an event ev
Events(ev) == {i \in DOMAIN log : log[i].ev = ev}

RunFailed(i, art) == log[i].ev = "run_fail" /\ log[i].art = art

\* C1: when generate_docs_for_soff returns for a document with a file URL and a
\* supported type whose metadata was read, either the images were submitted
\* and it returns True, or nothing was submitted and it returns False
C1_DeliveredOrFailed ==
    (Returned /\ Supported /\ temp_path # None)
        => (delivered /\ retval = "True") \/ (~delivered /\ retval = "False")

\* the fallback chain is exhausted: repair gave no artifact, or the run
\* against the repaired artifact failed
ChainExhausted ==
    \E i \in DOMAIN log :
        \/ log[i].ev = "repair" /\ log[i].info = "none"
        \/ RunFailed(i, "repaired")

\* C2: generate_docs_for_soff (new_docx2pdf) returns False whenever the
\* fallback chain is exhausted
C2_ExhaustedReturnsFalse ==
    (job.module = "new_docx2pdf" /\ Returned /\ ChainExhausted) => retval = "False"

\* the source copy, a compressed variant, a repaired variant, the image directory
IsWorkingPath(p) ==
    \/ p = TempPath(job.file_type)
    \/ p = OutputFolder
    \/ p = repaired
    \/ HasTag(p, "_compressed")
    \/ HasTag(p, "_repaired")

\* C3: when generate_docs_for_soff has returned, the source copy, any
\* compressed variant, any repaired variant and the output image directory
\* do not exist
C3_WorkingPathsRemoved ==
    Returned => \A p \in fs : ~IsWorkingPath(p)

\* a job that made a compressed and a repaired variant, ran all three
\* artifacts and has returned
C3_Witness ==
    /\ Returned
    /\ compressed # None
    /\ repaired # None
    /\ Cardinality(Events("run_start")) = 3

\* the job is inside a call of not_pdf_to_images_webp_libreoffice
InRun == pc \in {"alt", "unoconv_poll", "alt_wait", "lo_start", "lo_poll",
                 "rasterize", "convert_to_pdf"}

IsAttemptDir(p) == p.base \in {"libreoffice_out", "libreoffice_profile"}

\* C4: outside a call of not_pdf_to_images_webp_libreoffice (new_docx2pdf) no
\* output or profile directory of an attempt exists and no child is alive
C4_AttemptLeavesNothing ==
    (job.module = "new_docx2pdf" /\ ~InRun)
        => (\A p \in fs : ~IsAttemptDir(p)) /\ children = {}

\* C5: after a job (new_docx2pdf) has returned, no file whose name starts
\* with temp_copy_<doc_id> exists
C5_NoTempPrefixLeft ==
    (job.module = "new_docx2pdf" /\ Returned) => \A p \in fs : p.base # "temp_copy"

\* an attempt has produced a PDF that is being, or has been, rendered
Won == run.pdf_path \/ images

\* the step appends the start of a run or a repair to the history
StartsRunOrRepair ==
    /\ Len(log') > Len(log)
    /\ log'[Len(log')].ev \in {"run_start", "repair"}

CompressedTimedOutOrCrashed(i) ==
    RunFailed(i, "compressed") /\ log[i].info \in {"timeout", "crashed"}

\* C7: after a Timeout or Crashed of the compressed variant the next thing
\* started is a run against the original, and a repair comes only after
\* that run has failed
C7_OriginalBeforeRepair ==
    \A i \in DOMAIN log :
        CompressedTimedOutOrCrashed(i) =>
            /\ i < Len(log) => log[i + 1] = Ev("run_start", "original", "")
            /\ i = Len(log) =>
                   \/ pc = "raised"
                   \/ pc = "run_begin" /\ stage = "original"
            /\ \A j \in Events("repair") :
                   j > i => \E k \in (i + 1)..(j - 1) : RunFailed(k, "original")

\* the compressed variant timed out or crashed, the original failed too and
\* repair was invoked
C7_Witness ==
    \E i \in DOMAIN log, j \in Events("repair") :
        /\ CompressedTimedOutOrCrashed(i)
        /\ j = i + 3
        /\ RunFailed(i + 2, "original")

\* C8 as claimed: repair is invoked, and the job is failed, only after a run
\* against the original artifact has been made and has failed
C8_RepairOnlyAfterOriginal ==
    /\ \A j \in Events("repair") : \E k \in 1..(j - 1) : RunFailed(k, "original")
    /\ retval = "False" => \E k \in DOMAIN log : RunFailed(k, "original")

\* C8 amended: repair is invoked only right after a failed run, against the
\* original or against the compressed variant when that ended neither in
\* Timeout nor in Crashed (the original is then never run); the job is failed
\* only right after a repair that gave no artifact
C8_RepairAfterOriginalOrPlainFailure ==
    /\ \A j \in Events("repair") :
          /\ j > 1
          /\ \/ RunFailed(j - 1, "original")
             \/ /\ RunFailed(j - 1, "compressed")
                /\ ~CompressedTimedOutOrCrashed(j - 1)
                /\ \A k \in Events("run_start") : log[k].art # "original"
    /\ retval = "False" =>
          /\ log # <<>>
          /\ log[Len(log)].ev = "repair"
          /\ log[Len(log)].info = "none"

\* the compressed variant failed with a plain error and repair was invoked
\* with no run against the original
C8_Witness ==
    \E j \in Events("repair") :
        /\ j > 1
        /\ RunFailed(j - 1, "compressed")
        /\ \A k \in DOMAIN log : ~RunFailed(k, "original")

Rank(art) == IF art = "compressed" THEN 1 ELSE IF art = "original" THEN 2 ELSE 3

\* C9: a job invokes repair at most once, runs the repaired artifact at most
\* once and makes at most three runs, in the order compressed, original,
\* repaired
C9_AtMostThreeRunsInOrder ==
    /\ Cardinality(Events("repair")) <= 1
    /\ Cardinality({i \in Events("run_start") : log[i].art = "repaired"}) <= 1
    /\ Cardinality(Events("run_start")) <= 3
    /\ \A i, j \in Events("run_start") :
          i < j => Rank(log[i].art) < Rank(log[j].art)

\* a job that ran the compressed variant, the original and the repaired
\* artifact, all of which failed
C9_Witness ==
    /\ Returned
    /\ Cardinality(Events("run_fail")) = 3
    /\ Cardinality(Events("repair")) = 1

\* C10: at most one conversion child of the job is alive
C10_OneChildAlive ==
    Cardinality(children) <= 1

\* C30: for a document without file URL or of a declared type other than
\* .pptx, .ppt, .doc, .docx and .pdf no backend, repair, rasterization or
\* upload is ever started, and generate_docs_for_soff returns True with the
\* source copy removed
C30_UnsupportedIsTrivialSuccess ==
    ~Supported =>
        /\ log = <<>>
        /\ children = {}
        /\ run = NoRun
        /\ ~images
        /\ ~delivered
        /\ repaired = None
        /\ Returned => (retval = "True" /\ fs = {})

\* a document of an unsupported type was downloaded and the call has returned
C30_Witness ==
    /\ Returned
    /\ job.file_url
    /\ job.file_type = ".txt"
    /\ temp_path = TempPath(".txt")
    /\ exc = NoExc

\* C31: a job of declared type .pdf is never in compression, in a conversion
\* run or in repair, starts no child process, and goes from the download to
\* the rasterization of the source and from there to the upload
C31_PdfSkipsConversion ==
    /\ [](job.file_type = ".pdf" =>
             /\ pc \in {"start", "download", "pdf_to_images", "upload",
                        "outer_except", "outer_finally", "done"}
             /\ log = <<>>
             /\ children = {}
             /\ run = NoRun
             /\ stage = "none"
             /\ compressed = None
             /\ repaired = None
             /\ file_to_convert = None)
    /\ [][job.file_type = ".pdf" =>
             /\ (pc = "download" /\ pc' # "outer_except") => pc' = "pdf_to_images"
             /\ (pc = "pdf_to_images" /\ pc' # "outer_except")
                    => (pc' = "upload" /\ images')
             /\ pc' = "upload" => pc = "pdf_to_images"
             /\ pc' = "pdf_to_images" => pc = "download"
             /\ (delivered' /\ ~delivered) => pc = "upload"]_vars

\* the images of a PDF source were uploaded and the call has returned
C31_Witness ==
    /\ Returned
    /\ job.file_type = ".pdf"
    /\ images
    /\ delivered

\* the backends of a .docx before LibreOffice, as the claim orders them
DocxOrder == (IF job.enable_unoconv THEN <<"unoconv">> ELSE <<>>)
             \o <<"docx2pdf", "pypandoc">>

\* s is what is left of t after some of its first elements
IsSuffix(s, t) == \E k \in 0..Len(t) : s = SubSeq(t, k + 1, Len(t))

\* an alternative is about to be started, or is running
InAlternative == pc \in {"alt", "unoconv_poll", "alt_wait"}

\* C35: when the run on the compressed variant timed out and the run on the
\* original then succeeded, the images and page count bound for the upload
\* are those of that one successful run, made on the original with the
\* quality and width the first run of a job without a variant is given, and
\* the variant is off the disk from the inner finally on
C35_FallbackEqualsOriginalOnly ==
    /\ \A k \in Events("run_ok") :
          log[k].art = "original" => log[k].info = "quality=60,max_width=800"
    /\ \A i \in Events("run_fail"), j \in Events("run_ok") :
          ( /\ log[i].art = "compressed"
            /\ log[i].info = "timeout"
            /\ i < j
            /\ log[j].art = "original" )
          => /\ Events("run_ok") = {j}
             /\ j = i + 2
             /\ images
             /\ compressed # None
             /\ pc \in {"upload", "outer_except", "outer_finally", "done"}
                   => compressed \notin fs

\* the job has returned after such a fallback and has uploaded the images
C35_Witness ==
    /\ pc = "done"
    /\ delivered
    /\ \E i \in Events("run_fail") :
          /\ log[i].art = "compressed"
          /\ log[i].info = "timeout"
          /\ \E j \in Events("run_ok") : i < j /\ log[j].art = "original"

\* C36: every call of try_repair_office_file is given the downloaded copy
\* temp_path, also when the run that failed was made on the compressed
\* variant, and the repaired file is derived from temp_path
C36_RepairOnOriginal ==
    /\ \A i \in Events("repair") : log[i].art = "original"
    /\ repaired # None =>
          /\ ~HasTag(repaired, "_compressed")
          /\ repaired = RepairedPath(NormalizedPptxPath(temp_path))

\* the compressed variant failed and the repair was called right after it
C36_Witness ==
    /\ compressed # None
    /\ \E i \in Events("repair") :
          /\ i > 1
          /\ RunFailed(i - 1, "compressed")
          /\ log[i].info = "repaired"

\* a step in which a phase of the job fails: the fetch, the download, a
\* conversion run or its rasterization, the rendering of a PDF, the upload
\* raise, or the repair gives nothing
PhaseFails ==
    \/ exc = NoExc /\ exc' # NoExc
    \/ pc = "repair" /\ retval' = "False"

\* C38: no failure of the fetch, the download, a conversion, the repair, the
\* rasterization or the upload leaves generate_docs_for_soff as an
\* exception: after each the job goes on to its cleanup and a return
\* statement, so the worker loop that called it goes on
C38_FailureStaysInJob ==
    /\ [](/\ pc # "escaped"
          /\ pc \in {"outer_finally", "done"} => exc = NoExc
          /\ pc = "done" => retval \in {"True", "False"})
    /\ [][PhaseFails =>
             pc' \in {"raised", "inner_finally", "outer_except"}]_vars

\* the upload raised and the job has returned
C38_Witness ==
    /\ pc = "done"
    /\ images
    /\ ~delivered
    /\ retval = "True"
    /\ log # <<>>

\* C39: once try_repair_office_file has returned, with a repaired file or
\* with None, the directory it made with the prefix repair_office_ is no
\* longer on disk
C39_RepairDirRemoved ==
    \A p \in fs : p.base # "repair_office"

\* C33: in new_docx2pdf a run on a .docx tries unoconv (if enabled), docx2pdf,
\* pypandoc and then LibreOffice, each only while no earlier one has given a
\* PDF; a run on another type starts LibreOffice at once; unoconv is given
\* min(conversion timeout, 60) as its timeout
C33_BackendOrder ==
    /\ [](job.module = "new_docx2pdf" =>
             /\ InAlternative =>
                    /\ IsDocx(run.ppt_path)
                    /\ run.alternatives # <<>>
                    /\ IsSuffix(run.alternatives, DocxOrder)
                    /\ ~run.pdf_path
             /\ pc = "unoconv_poll" =>
                    /\ Head(run.alternatives) = "unoconv"
                    /\ run.alt_timeout =
                          (IF run.timeout < 60 THEN run.timeout ELSE 60)
             /\ pc = "alt_wait" => /\ Head(run.alternatives) # "unoconv"
                                   /\ run.alt_timeout = run.timeout
             /\ pc \in {"lo_start", "lo_poll"} =>
                    /\ run.alternatives = <<>>
                    /\ ~run.pdf_path)
    /\ [][job.module = "new_docx2pdf" =>
             /\ (pc = "run_begin" /\ pc' # pc) =>
                    /\ run'.alternatives =
                          (IF IsDocx(run'.ppt_path) THEN DocxOrder ELSE <<>>)
                    /\ pc' = IF IsDocx(run'.ppt_path) THEN "alt" ELSE "lo_start"
             /\ (InAlternative /\ pc' = "alt" /\ run' # run) =>
                    /\ run'.alternatives = Tail(run.alternatives)
                    /\ ~run'.pdf_path
             /\ (InAlternative /\ pc' = "lo_start") =>
                    /\ Tail(run.alternatives) = <<>>
                    /\ ~run'.pdf_path
             /\ (InAlternative /\ run'.pdf_path) => pc' = "rasterize"
             /\ (pc' = "lo_start" /\ pc # pc') =>
                    (InAlternative \/ pc = "run_begin")]_vars

\* LibreOffice runs on a .docx after unoconv, docx2pdf and pypandoc
C33_Witness ==
    /\ job.module = "new_docx2pdf"
    /\ job.enable_unoconv
    /\ pc = "lo_poll"
    /\ IsDocx(run.ppt_path)
    /\ run.timeout > 120

(***************************************************************************)
(* Supervision of one backend attempt                                      *)
(***************************************************************************)

\* the job of generate_docs_for_soff is not running
JobIdle ==
    /\ pc = "idle"
    /\ job = [module |-> "new_docx2pdf", file_type |-> ".docx",
              file_url |-> TRUE, enable_unoconv |-> TRUE]
    /\ fs = {}
    /\ temp_path = None
    /\ output_folder = None
    /\ compressed = None
    /\ repaired = None
    /\ file_to_convert = None
    /\ stage = "none"
    /\ run = NoRun
    /\ children = {}
    /\ exc = NoExc
    /\ retval = "unset"
    /\ images = FALSE
    /\ delivered = FALSE
    /\ mk = 0
    /\ log = <<>>

\* the variables the supervision of an attempt does not touch
beside_sup == <<vars, queuevars, repairvars, rastervars, sizevars, taskvars,
                  killvars, compvars>>

\* time.sleep(1) at the end of a poll loop (lines 424 and 611), in half seconds
PollInterval == 2

\* time.sleep(1) after process.terminate() (line 400)
TerminateWait == 2

\* time.sleep(0.5) after process.kill() (line 405) and in
\* cleanup_libreoffice_processes (line 351)
KillWait == 1

\* process.wait(timeout=2) (line 412)
FinalWait == 4

\* the largest timeout of an attempt, in half seconds
MaxTimeout == 3

\* unoconv, docx2pdf, pypandoc and soffice of a run; "normalize" is the soffice
\* call that turns a .ppt into a .pptx in try_repair_office_file
Backends == {"unoconv", "docx2pdf", "pypandoc", "soffice", "normalize"}

\* the backends started with Popen and watched by a poll loop
Polled == {"unoconv", "soffice"}

Sent(sig) == \E i \in DOMAIN signals : signals[i] = sig

InitSup ==
    /\ JobIdle /\ SupIdle /\ QueueIdle /\ RepairIdle
    /\ RasterIdle /\ SizeIdle /\ TaskIdle
    /\ KillIdle /\ CompIdle

\* the limits the child has when it executes the binary: Popen is called
\* without preexec_fn (lines 383-388 and 581-595), convert(), convert_file()
\* and subprocess.run() take none, and no line calls resource.setrlimit
ChildLimits(backend) == Inherited

\* Popen([...]) of a poll loop; convert(), convert_file() and subprocess.run(),
\* which start the converter and block until it has exited.  hangs: the child
\* never exits by itself; heeds_term: it exits when it is sent SIGTERM
StartAttempt ==
    /\ attempt.at = "idle"
    /\ \E b \in Backends, t \in 1..MaxTimeout, hangs \in BOOLEAN, heeds \in BOOLEAN :
          /\ attempt' = [backend |-> b, timeout |-> t,
                         at |-> IF b \in Polled THEN "poll" ELSE "blocked"]
          /\ process' = [alive |-> TRUE, hangs |-> hangs, heeds_term |-> heeds,
                         returncode |-> "none", pdf |-> FALSE,
                         rlimits |-> ChildLimits(b)]
    /\ clock' = 0
    /\ UNCHANGED <<signals, outcome, beside_sup>>

\* the child exits: by itself unless it hangs, on SIGTERM if it heeds it, on
\* SIGKILL; a child ended by a signal has a negative return code
ChildExits ==
    /\ process.alive
    /\ \/ ~process.hangs
       \/ process.heeds_term /\ Sent("SIGTERM")
       \/ Sent("SIGKILL")
    /\ \E rc \in {"zero", "nonzero", "signal"}, pdf \in BOOLEAN :
          /\ signals # <<>> => rc = "signal"
          /\ process' = [process EXCEPT !.alive = FALSE, !.returncode = rc,
                                        !.pdf = pdf]
    /\ UNCHANGED <<attempt, clock, signals, outcome, beside_sup>>

\* if elapsed > timeout: (lines 395 and 602)
TimedOut(elapsed, timeout) == elapsed > timeout

\* while process.poll() is None: elapsed = time.time() - start_time; ...
SupPoll ==
    /\ attempt.at = "poll"
    /\ attempt' = [attempt EXCEPT !.at =
                      IF ~process.alive THEN "completed"
                      ELSE IF TimedOut(clock, attempt.timeout) THEN "timed_out"
                      ELSE "sleep"]
    /\ UNCHANGED <<process, clock, signals, outcome, beside_sup>>

\* time.sleep(1) of the poll loop
SupSleep ==
    /\ attempt.at = "sleep"
    /\ clock' = clock + PollInterval
    /\ attempt' = [attempt EXCEPT !.at = "poll"]
    /\ UNCHANGED <<process, signals, outcome, beside_sup>>

\* docx_to_pdf_unoconv, line 399: process.terminate()
UnoTerminate ==
    /\ attempt.at = "timed_out"
    /\ attempt.backend = "unoconv"
    /\ signals' = Append(signals, "SIGTERM")
    /\ attempt' = [attempt EXCEPT !.at = "terminate_wait"]
    /\ UNCHANGED <<process, clock, outcome, beside_sup>>

\* line 400: time.sleep(1)
UnoTerminateWait ==
    /\ attempt.at = "terminate_wait"
    /\ clock' = clock + TerminateWait
    /\ attempt' = [attempt EXCEPT !.at = "escalate"]
    /\ UNCHANGED <<process, signals, outcome, beside_sup>>

\* lines 401-405: if process.poll() is None: process.kill(); time.sleep(0.5)
UnoEscalate ==
    /\ attempt.at = "escalate"
    /\ IF process.alive
       THEN /\ signals' = Append(signals, "SIGKILL")
            /\ clock' = clock + KillWait
       ELSE UNCHANGED <<signals, clock>>
    /\ attempt' = [attempt EXCEPT !.at = "cleanup"]
    /\ UNCHANGED <<process, outcome, beside_sup>>

\* lines 408 and 342-353: pkill -9 unoconv reaches the child if it is alive
UnoCleanup ==
    /\ attempt.at = "cleanup"
    /\ signals' = IF process.alive THEN Append(signals, "SIGKILL") ELSE signals
    /\ clock' = clock + KillWait
    /\ attempt' = [attempt EXCEPT !.at = "final_wait"]
    /\ UNCHANGED <<process, outcome, beside_sup>>

\* lines 411-418: process.wait(timeout=2), its expiry swallowed; return None
UnoFinalWait ==
    /\ attempt.at = "final_wait"
    /\ clock' = IF process.alive THEN clock + FinalWait ELSE clock
    /\ outcome' = "None"
    /\ attempt' = [attempt EXCEPT !.at = "returned"]
    /\ UNCHANGED <<process, signals, beside_sup>>

\* lines 426-446: the child has exited, its return code and PDF are looked at
UnoCompleted ==
    /\ attempt.at = "completed"
    /\ attempt.backend = "unoconv"
    /\ outcome' = IF UnoconvResult(process.returncode = "zero", process.pdf)
                  THEN "path" ELSE "None"
    /\ attempt' = [attempt EXCEPT !.at = "returned"]
    /\ UNCHANGED <<process, clock, signals, beside_sup>>

\* not_pdf_to_images_webp_libreoffice, line 604: process.kill()
LoKill ==
    /\ attempt.at = "timed_out"
    /\ attempt.backend = "soffice"
    /\ signals' = Append(signals, "SIGKILL")
    /\ attempt' = [attempt EXCEPT !.at = "wait"]
    /\ UNCHANGED <<process, clock, outcome, beside_sup>>

\* lines 605-606: process.wait() returns once the child has exited; raise
LoWait ==
    /\ attempt.at = "wait"
    /\ ~process.alive
    /\ outcome' = "TimeoutExpired"
    /\ attempt' = [attempt EXCEPT !.at = "returned"]
    /\ UNCHANGED <<process, clock, signals, beside_sup>>

\* lines 613-640: soffice has exited, its return code and output are looked at
LoCompleted ==
    /\ attempt.at = "completed"
    /\ attempt.backend = "soffice"
    /\ \E segv \in BOOLEAN, crashword \in BOOLEAN :
          LET o == LoOutcome(process.returncode, process.pdf, segv, crashword)
          IN outcome' = IF o.exc = NoExc THEN "path" ELSE o.exc.kind
    /\ attempt' = [attempt EXCEPT !.at = "returned"]
    /\ UNCHANGED <<process, clock, signals, beside_sup>>

\* lines 470-481, 496-507 and 758-772: the call raised, or the file it was to
\* write exists or not
BlockingResult(raised, exists) == IF ~raised /\ exists THEN "path" ELSE "None"

\* convert(), convert_file() or subprocess.run(check=True) returns or raises:
\* the converter has exited
BlockingReturns ==
    /\ attempt.at = "blocked"
    /\ ~process.alive
    /\ outcome' = BlockingResult(process.returncode # "zero", process.pdf)
    /\ attempt' = [attempt EXCEPT !.at = "returned"]
    /\ UNCHANGED <<process, clock, signals, beside_sup>>

NextSup ==
    \/ StartAttempt
    \/ ChildExits
    \/ SupPoll
    \/ SupSleep
    \/ UnoTerminate
    \/ UnoTerminateWait
    \/ UnoEscalate
    \/ UnoCleanup
    \/ UnoFinalWait
    \/ UnoCompleted
    \/ LoKill
    \/ LoWait
    \/ LoCompleted
    \/ BlockingReturns

SpecSup == InitSup /\ [][NextSup]_<<supvars, beside_sup>>

\* C11: while the child of a polled attempt (unoconv, soffice) is alive, no
\* more than the attempt's timeout plus one poll interval has passed since it
\* was started
C11_AliveWithinTimeoutPlusPoll ==
    (attempt.backend \in Polled /\ process.alive)
        => clock <= attempt.timeout + PollInterval

\* C12: an attempt that has started and not returned can always go on, also
\* when its child never exits by itself: a timeout ends every attempt
C12_EveryAttemptEnds ==
    attempt.at \notin {"idle", "returned"} => ENABLED NextSup

\* C13: SIGKILL is sent to the child of an attempt only after SIGTERM was
\* sent to it
C13_TerminateBeforeKill ==
    \A i \in DOMAIN signals :
        signals[i] = "SIGKILL" => \E j \in 1..(i - 1) : signals[j] = "SIGTERM"

\* C14: an unoconv or soffice attempt whose child exited by itself is a
\* success when the PDF was produced, whatever the exit status, and a failure
\* when the exit status is zero and no PDF was produced
C14_OutputDecides ==
    (attempt.backend \in Polled /\ outcome # "pending" /\ signals = <<>>)
        => /\ process.pdf => outcome = "path"
           /\ (process.returncode = "zero" /\ ~process.pdf)
                  => outcome \in {"None", "RuntimeError"}

\* C29: a soffice or unoconv child that has been started executes with a
\* limit of its virtual memory and of its CPU time that was set in the child
\* before the binary was executed
C29_ChildHasOwnLimits ==
    (attempt.backend \in Polled /\ attempt.at # "idle")
        => /\ process.rlimits.as = "preexec_fn"
           /\ process.rlimits.cpu = "preexec_fn"

(***************************************************************************)
(* process_doc_poster_generate_queue: producer, queue, worker processes    *)
(***************************************************************************)

\* the variables the queue, its producer and its workers do not touch
beside_queue == <<vars, supvars, repairvars, rastervars, sizevars, taskvars,
                  killvars, compvars>>

\* the largest argument workers
MaxWorkers == 2

\* the argument limit: the iterations of the producer's loop
Limit == 5

\* the queue mutated: Queue() with no maxsize
MaxSizeUnbounded(module, workers) == 0

\* Queue(maxsize=workers * 2) in new_docx2pdf, Queue(maxsize=workers * 4) in
\* new_optimized
MaxSize(module, workers) ==
    IF module = "new_docx2pdf" THEN workers * 2 ELSE workers * 4

\* Queue.put blocks while the queue holds maxsize items; a maxsize of 0 or
\* less is no limit
Full(q, maxsize) == maxsize > 0 /\ Len(q) >= maxsize

\* the stop loop mutated: one sentinel too many
SentinelsOneMore(workers) == workers + 1

\* the stop loop mutated: one sentinel too few
SentinelsOneLess(workers) == workers - 1

\* 'for _ in processes: queue.put(None)', 'for _ in range(workers): queue.put(None)'
Sentinels(workers) == workers

\* where the producer goes when the request to the job source raises: nothing
\* catches it in new_docx2pdf; new_optimized prints it and goes on
OnRequestError(module) ==
    IF module = "new_docx2pdf" THEN "crashed" ELSE "request"

\* the worker mutated: it takes the next item without running the job
AfterGetSkipsJob(item) == IF item = Sentinel THEN "stopped" ELSE "get"

\* worker: 'if doc_id is None: break', else generate_docs_for_soff(doc_id)
AfterGet(item) == IF item = Sentinel THEN "stopped" ELSE "job"

Count(seq, x) == Cardinality({i \in DOMAIN seq : seq[i] = x})

InitQueue ==
    /\ JobIdle
    /\ SupIdle
    /\ RepairIdle
    /\ RasterIdle /\ SizeIdle /\ TaskIdle
    /\ KillIdle /\ CompIdle
    /\ \E m \in Modules, n \in 1..MaxWorkers :
          /\ call = [module |-> m, workers |-> n]
          /\ worker = [w \in 1..n |-> [at |-> "get", doc_id |-> Sentinel,
                                       pills |-> 0]]
    /\ queue = <<>>
    /\ producer = [at |-> "request", i |-> 0, doc_id |-> Sentinel, stops |-> 0]
    /\ enqueued = [x \in Items |-> 0]
    /\ processed = [d \in DocIds |-> 0]

\* one iteration of 'for _ in range(limit)' up to queue.put: the loop is over,
\* or the job source answers with an id, with no id (break), with another
\* status, or the request raises
Request ==
    /\ producer.at = "request"
    /\ IF producer.i >= Limit
       THEN producer' = [producer EXCEPT !.at = "stop"]
       ELSE \E answer \in {"id", "no_id", "not_200", "raises"}, d \in DocIds :
               /\ answer # "id" => d = 1
               /\ producer' =
                     [producer EXCEPT
                         !.i = @ + 1,
                         !.doc_id = IF answer = "id" THEN d ELSE @,
                         !.at = IF answer = "id" THEN "put"
                                ELSE IF answer = "no_id" THEN "stop"
                                ELSE IF answer = "not_200" THEN "request"
                                ELSE OnRequestError(call.module)]
    /\ UNCHANGED <<call, queue, worker, enqueued, processed, beside_queue>>

\* queue.put(doc_id), which blocks while the queue is full; time.sleep(0.2)
Put ==
    /\ producer.at = "put"
    /\ ~Full(queue, MaxSize(call.module, call.workers))
    /\ queue' = Append(queue, producer.doc_id)
    /\ enqueued' = [enqueued EXCEPT ![producer.doc_id] = @ + 1]
    /\ producer' = [producer EXCEPT !.at = "request"]
    /\ UNCHANGED <<call, worker, processed, beside_queue>>

\* queue.put(None), once per worker process
PutSentinel ==
    /\ producer.at = "stop"
    /\ producer.stops < Sentinels(call.workers)
    /\ ~Full(queue, MaxSize(call.module, call.workers))
    /\ queue' = Append(queue, Sentinel)
    /\ enqueued' = [enqueued EXCEPT ![Sentinel] = @ + 1]
    /\ producer' = [producer EXCEPT !.stops = @ + 1]
    /\ UNCHANGED <<call, worker, processed, beside_queue>>

\* 'for p in processes: p.join()': every worker process has ended
Join ==
    /\ producer.at = "stop"
    /\ producer.stops >= Sentinels(call.workers)
    /\ \A w \in DOMAIN worker : worker[w].at = "stopped"
    /\ producer' = [producer EXCEPT !.at = "done"]
    /\ UNCHANGED <<call, queue, worker, enqueued, processed, beside_queue>>

\* worker: doc_id = queue.get(), which blocks while the queue is empty
Get(w) ==
    /\ w \in DOMAIN worker
    /\ worker[w].at = "get"
    /\ queue # <<>>
    /\ queue' = Tail(queue)
    /\ worker' = [worker EXCEPT
                     ![w].at = AfterGet(Head(queue)),
                     ![w].doc_id = Head(queue),
                     ![w].pills = IF Head(queue) = Sentinel THEN @ + 1 ELSE @]
    /\ UNCHANGED <<call, producer, enqueued, processed, beside_queue>>

\* worker: generate_docs_for_soff(doc_id) returns
JobDone(w) ==
    /\ w \in DOMAIN worker
    /\ worker[w].at = "job"
    /\ processed' = [processed EXCEPT ![worker[w].doc_id] = @ + 1]
    /\ worker' = [worker EXCEPT ![w].at = "get", ![w].doc_id = Sentinel]
    /\ UNCHANGED <<call, queue, producer, enqueued, beside_queue>>

NextQueue ==
    \/ Request
    \/ Put
    \/ PutSentinel
    \/ Join
    \/ \E w \in 1..MaxWorkers : Get(w)
    \/ \E w \in 1..MaxWorkers : JobDone(w)

SpecQueue == InitQueue /\ [][NextQueue]_<<queuevars, beside_queue>>

\* the operating system runs a process that can run, and a job that was
\* started finishes: the call does not stop while a step of it can be taken
FairQueue == WF_<<queuevars, beside_queue>>(NextQueue)

SpecQueueFair == SpecQueue /\ FairQueue

AllStopped == \A w \in DOMAIN worker : worker[w].at = "stopped"

\* the step puts a job identifier
PutsIdentifier == \E d \in DocIds : enqueued'[d] > enqueued[d]

\* the sentinels come last in the queue
SentinelsLast(q) ==
    \A i, j \in DOMAIN q : (i < j /\ q[i] = Sentinel) => q[j] = Sentinel

\* C15: no job identifier is put once a sentinel was put, and none is behind
\* a sentinel in the queue; no more sentinels are put than there are
\* workers, and exactly that many once the producer has put them all; a
\* worker stops on its first sentinel and gets no second one; no sentinel is
\* left in the queue when every worker has stopped
C15_SentinelsLastOnePerWorker ==
    /\ [][PutsIdentifier => enqueued[Sentinel] = 0]_queuevars
    /\ [](/\ SentinelsLast(queue)
          /\ enqueued[Sentinel] <= call.workers
          /\ producer.at = "done" => enqueued[Sentinel] = call.workers
          /\ \A w \in DOMAIN worker :
                /\ worker[w].pills <= 1
                /\ worker[w].at = "stopped" <=> worker[w].pills = 1
          /\ AllStopped => queue = <<>>)

\* two workers have each got their sentinel after jobs were put, and
\* process_doc_poster_generate_queue has returned
C15_Witness ==
    /\ producer.at = "done"
    /\ call.workers = 2
    /\ enqueued[1] + enqueued[2] >= 2

\* the workers that are inside generate_docs_for_soff(d)
Running(d) == {w \in DOMAIN worker : worker[w].at = "job" /\ worker[w].doc_id = d}

\* C16: every identifier put is in the queue, being processed by one worker,
\* or processed, once for each time it was put; when all workers have stopped
\* none is in the queue and each was processed as often as it was put
C16_NoJobLostOrDuplicated ==
    /\ \A d \in DocIds :
          enqueued[d] = Count(queue, d) + Cardinality(Running(d)) + processed[d]
    /\ \A w \in DOMAIN worker :
          worker[w].at = "get" => worker[w].doc_id = Sentinel
    /\ AllStopped =>
          \A d \in DocIds : Count(queue, d) = 0 /\ processed[d] = enqueued[d]

\* both workers have stopped after one identifier was put twice and another once
C16_Witness ==
    /\ AllStopped
    /\ call.workers = 2
    /\ enqueued[1] = 2
    /\ enqueued[2] >= 1

\* the producer's enumeration loop has ended: limit reached, or no identifier
ProducerLoopEnded == producer.at = "stop"

\* C17: once the producer's loop has ended, every worker gets a sentinel and
\* stops, and process_doc_poster_generate_queue returns
C17_WorkersStopAndCallReturns ==
    ProducerLoopEnded ~> (AllStopped /\ producer.at = "done")

\* the loop ran to its limit, four jobs were processed by two workers and the
\* call has returned
C17_Witness ==
    /\ producer.at = "done"
    /\ call.workers = 2
    /\ producer.i = Limit
    /\ processed[1] + processed[2] >= 4

\* C37: in every run of process_doc_poster_generate_queue, also one in which
\* a request to the job source raises, the producer puts one sentinel per
\* worker, every worker stops and the call returns
C37_RequestErrorStillStops ==
    <>(/\ producer.at = "done"
       /\ AllStopped
       /\ enqueued[Sentinel] = call.workers)

\* the capacity the queue is to have
Capacity == IF call.module = "new_docx2pdf" THEN 2 * call.workers
            ELSE 4 * call.workers

\* the producer holds an identifier and the queue is full
BlockedInPut == producer.at = "put" /\ Len(queue) = Capacity

Named(p, doc_id) == [path |-> p, doc_id |-> doc_id]

\* data['document']['file_type'] of the document with this identifier
DeclaredType(doc_id) == IF doc_id = 1 THEN ".docx" ELSE ".pptx"

\* the source copy, the image directory, the compressed and the repaired
\* variant of the job of doc_id
JobPaths(doc_id) ==
    LET tp == TempPath(DeclaredType(doc_id))
    IN {Named(tp, doc_id), Named(OutputFolder, doc_id),
        Named(CompressedFor(DeclaredType(doc_id), tp), doc_id),
        Named(RepairedPath(tp), doc_id)}

\* C19: two workers that are processing jobs at the same time use no path in
\* common
C19_WorkingPathsDisjoint ==
    \A v, w \in DOMAIN worker :
        (v # w /\ worker[v].at = "job" /\ worker[w].at = "job")
            => JobPaths(worker[v].doc_id) \cap JobPaths(worker[w].doc_id) = {}

(***************************************************************************)
(* try_repair_office_file: extraction, clean_xml_references, repacking     *)
(* (lines 716-746 and 756-819)                                             *)
(***************************************************************************)

\* the variables the repair of an archive does not touch
beside_repair == <<vars, supvars, queuevars, rastervars, sizevars, taskvars,
                  killvars, compvars>>

\* Names of members: the segments of the path, the extension as the last one
RootRels == <<"_rels", "", ".rels">>
Document == <<"word", "document", ".xml">>
DocRels == <<"word", "_rels", "document.xml", ".rels">>
Image1 == <<"word", "media", "image1", ".png">>
Styles == <<"word", "styles", ".xml">>

\* <Relationship Id=... Target=...> and <a:blip r:embed=...>
Relationship(id, target) == [kind |-> "Relationship", id |-> id, target |-> target]
Blip(embed) == [kind |-> "blip", id |-> embed, target |-> <<>>]

\* zip_ref.namelist() of the documents given to the repair
NameList == <<RootRels, Document, DocRels, Image1, Styles>>

\* a file of temp_dir or a member of an archive: a member as it was, a
\* placeholder image, or what a failed extraction left behind
File(name, refs, content) == [name |-> name, refs |-> refs, content |-> content]

\* the members of a .docx and the references each holds; the targets of
\* word/_rels/document.xml.rels are written relative to word/, or from the
\* root of the package with a leading slash
Package(absolute) ==
    LET target(name) == IF absolute THEN <<"">> \o name ELSE Tail(name)
    IN {File(RootRels, {Relationship("rId1", Document)}, "member"),
        File(Document, {Blip("rId1")}, "member"),
        File(DocRels, {Relationship("rId1", target(Image1)),
                       Relationship("rId2", target(Styles))}, "member"),
        File(Image1, {}, "member"),
        File(Styles, {}, "member")}

\* a zip container with these members; extract raises on those of corrupt
Archive(members, corrupt) ==
    [zip |-> TRUE, members |-> members, corrupt |-> corrupt]

\* the files given to try_repair_office_file under a name of this type: a
\* .ppt is the binary format, the others are a package, healthy or with
\* members that do not extract, or no zip container at all
Inputs(file_type) ==
    IF file_type = ".ppt" THEN {NotZip}
    ELSE {NotZip} \cup
         {Archive(Package(absolute), corrupt) :
              absolute \in BOOLEAN,
              corrupt \in SUBSET {Document, DocRels, Image1, Styles}}

\* the disk d after the file p was written with content c
WriteFile(d, p, c) == [q \in DOMAIN d \cup {p} |-> IF q = p THEN c ELSE d[q]]

\* zipfile.is_zipfile(p)
IsZipFile(d, p) == p \in DOMAIN d /\ d[p].zip

\* path.lower().endswith(".ppt") and not path.lower().endswith(".pptx")
IsLegacyPpt(p) == p.ext = ".ppt"

\* zip_ref.namelist()[1:]
NamesOfButFirst(members) ==
    Tail(SelectSeq(NameList, LAMBDA n : \E f \in members : f.name = n))

\* zip_ref.namelist()
NamesOf(members) == SelectSeq(NameList, LAMBDA n : \E f \in members : f.name = n)

\* file.lower().endswith((".png", ".jpg", ".jpeg"))
IsImage(name) == name[Len(name)] \in {".png", ".jpg", ".jpeg"}

\* file.endswith(".xml") or file.endswith(".rels")
IsXml(name) == name[Len(name)] \in {".xml", ".rels"}

\* m in text: m occurs in text as it stands
IsInfix(m, text) ==
    \E k \in 0..(Len(text) - Len(m)) : \A i \in 1..Len(m) : text[k + i] = m[i]

\* any(m in text for m in missing_files)
Matches(text, missing) == \E i \in DOMAIN missing : IsInfix(missing[i], text)

\* lines 727-743: the blip or Relationship stays in its document
Kept(r, missing) ==
    IF r.kind = "blip" THEN ~Matches(<<r.id>>, missing)
    ELSE ~Matches(r.target, missing)

\* lines 723-744 for one document
CleanDoc(f, missing) == [f EXCEPT !.refs = {r \in @ : Kept(r, missing)}]

\* try_repair_office_file(path) is called with the source copy of a job
InitRepair ==
    /\ JobIdle
    /\ SupIdle
    /\ QueueIdle
    /\ RasterIdle /\ SizeIdle /\ TaskIdle
    /\ KillIdle /\ CompIdle
    /\ \E file_type \in OfficeTypes : \E content \in Inputs(file_type) :
          /\ repair_path = TempPath(file_type)
          /\ disk = WriteFile(<<>>, TempPath(file_type), content)
    /\ zip_ref = NotZip
    /\ todo = <<>>
    /\ temp_dir = {}
    /\ missing_files = <<>>
    /\ repair_at = "begin"
    /\ repaired_zip = {}
    /\ repair_result = None
    /\ calls = 0

\* return v
Returns(v) ==
    /\ repair_result' = v
    /\ repair_at' = "done"
    /\ calls' = calls + 1

\* line 757: the path does not end in .ppt
NotLegacy ==
    /\ repair_at = "begin"
    /\ ~IsLegacyPpt(repair_path)
    /\ repair_at' = "is_zipfile"
    /\ UNCHANGED <<repair_path, disk, zip_ref, todo, temp_dir, missing_files,
                   repaired_zip, repair_result, calls, beside_repair>>

\* lines 758-772: soffice --convert-to pptx; the call raises or not, the
\* .pptx is written or not; the repair goes on with the .pptx when the call
\* did not raise and the .pptx exists
Normalize ==
    /\ repair_at = "begin"
    /\ IsLegacyPpt(repair_path)
    /\ \E raised, written \in BOOLEAN :
          LET pptx_path == NormalizedPptxPath(repair_path)
          IN /\ disk' = IF written
                        THEN WriteFile(disk, pptx_path, Archive(Package(FALSE), {}))
                        ELSE disk
             /\ IF ~raised /\ pptx_path \in DOMAIN disk'
                THEN /\ repair_path' = pptx_path
                     /\ repair_at' = "is_zipfile"
                     /\ UNCHANGED <<repair_result, calls>>
                ELSE /\ Returns(None)
                     /\ UNCHANGED repair_path
    /\ UNCHANGED <<zip_ref, todo, temp_dir, missing_files, repaired_zip,
                   beside_repair>>

\* line 776 with the path returned where None is
NotZipReturnsPath(p) == p

\* line 776: return None
NotZipReturns(p) == None

\* lines 774-782: a file that is no zip container is given up; else a new
\* directory is made and the archive is opened
IsZipFileCheck ==
    /\ repair_at = "is_zipfile"
    /\ IF IsZipFile(disk, repair_path)
       THEN /\ zip_ref' = disk[repair_path]
            /\ todo' = NamesOf(disk[repair_path].members)
            /\ temp_dir' = {}
            /\ missing_files' = <<>>
            /\ repair_at' = "extract"
            /\ UNCHANGED <<repair_result, calls>>
       ELSE /\ Returns(NotZipReturns(repair_path))
            /\ UNCHANGED <<zip_ref, todo, temp_dir, missing_files>>
    /\ UNCHANGED <<repair_path, disk, repaired_zip, beside_repair>>

\* zip_ref.extract(file, temp_dir) of a member that extracts: the file is
\* what the archive holds
Extracted(m) == File(m.name, m.refs, m.content)

\* lines 783-794: zip_ref.extract(file, temp_dir); when it raises the name is
\* recorded; an image is replaced by a placeholder; of any other member the
\* part that was written before the error stays in temp_dir, or nothing does
Extract ==
    /\ repair_at = "extract"
    /\ todo # <<>>
    /\ LET file == Head(todo)
           m == CHOOSE x \in zip_ref.members : x.name = file
       IN IF file \notin zip_ref.corrupt
          THEN /\ temp_dir' = temp_dir \cup {Extracted(m)}
               /\ UNCHANGED missing_files
          ELSE /\ missing_files' = Append(missing_files, file)
               /\ IF IsImage(file)
                  THEN temp_dir' = temp_dir \cup {File(file, {}, "placeholder")}
                  ELSE \E left \in BOOLEAN :
                          temp_dir' = IF left
                                      THEN temp_dir \cup {File(file, {}, "damaged")}
                                      ELSE temp_dir
    /\ todo' = Tail(todo)
    /\ UNCHANGED <<repair_path, disk, zip_ref, repair_at, repaired_zip, repair_result,
                   calls, beside_repair>>

\* lines 796-798: if missing_files: clean_xml_references(...)
ExtractDone ==
    /\ repair_at = "extract"
    /\ todo = <<>>
    /\ repair_at' = IF missing_files # <<>> THEN "clean" ELSE "pack"
    /\ UNCHANGED <<repair_path, disk, zip_ref, todo, temp_dir, missing_files,
                   repaired_zip, repair_result, calls, beside_repair>>

\* clean_xml_references: every .xml and .rels file that parses is rewritten
CleanXmlReferences ==
    /\ repair_at = "clean"
    /\ temp_dir' = {IF IsXml(f.name) /\ f.content = "member"
                    THEN CleanDoc(f, missing_files) ELSE f : f \in temp_dir}
    /\ repair_at' = "pack"
    /\ UNCHANGED <<repair_path, disk, zip_ref, todo, missing_files, repaired_zip,
                   repair_result, calls, beside_repair>>

\* lines 800-815: shutil.make_archive(base, "zip", temp_dir), moved to
\* repaired_path, which is returned
MakeArchive ==
    /\ repair_at = "pack"
    /\ LET repaired_path == RepairedPath(repair_path)
       IN /\ disk' = WriteFile(disk, repaired_path, Archive(temp_dir, {}))
          /\ Returns(repaired_path)
    /\ repaired_zip' = temp_dir
    /\ UNCHANGED <<repair_path, zip_ref, todo, temp_dir, missing_files, beside_repair>>

\* try_repair_office_file is called once more, with the path it returned,
\* while nothing else has touched the files
RepairAgain ==
    /\ repair_at = "done"
    /\ calls = 1
    /\ repair_result # None
    /\ repair_path' = repair_result
    /\ repair_at' = "begin"
    /\ UNCHANGED <<disk, zip_ref, todo, temp_dir, missing_files, repaired_zip,
                   repair_result, calls, beside_repair>>

NextRepair ==
    \/ NotLegacy
    \/ Normalize
    \/ IsZipFileCheck
    \/ Extract
    \/ ExtractDone
    \/ CleanXmlReferences
    \/ MakeArchive
    \/ RepairAgain

SpecRepair == InitRepair /\ [][NextRepair]_<<repairvars, beside_repair>>

\* the repaired archive has a member of this name
Present(name) == \E f \in repaired_zip : f.name = name

\* the directory the targets of a .rels document are relative to
BaseOf(rels) ==
    SubSeq(rels, 1, (CHOOSE i \in DOMAIN rels : rels[i] = "_rels") - 1)

\* the member a Target names
Resolve(rels, target) ==
    IF target[1] = "" THEN Tail(target) ELSE BaseOf(rels) \o target

\* the .rels document of a part
RelsOf(part) == IF part = Document THEN DocRels ELSE RootRels

\* C20: in the archive try_repair_office_file returns, the Target of every
\* Relationship names a member of the archive, and every blip embeds the Id
\* of a Relationship of its part whose Target names a member of the archive
C20_NoDanglingReference ==
    repair_at = "done" =>
        \A f \in repaired_zip : \A r \in f.refs :
            /\ r.kind = "Relationship" => Present(Resolve(f.name, r.target))
            /\ r.kind = "blip" =>
                  \E g \in repaired_zip :
                      /\ g.name = RelsOf(f.name)
                      /\ \E q \in g.refs : /\ q.kind = "Relationship"
                                           /\ q.id = r.id
                                           /\ Present(Resolve(g.name, q.target))

\* the call on the archive the first call returned has opened it, or has
\* returned
InSecondCall == (calls = 1 /\ repair_at \in {"extract", "clean", "pack"}) \/ calls = 2

\* C21: the repair of an archive that a repair returned, nothing else having
\* touched it, records no missing member, cleans no reference, creates no
\* placeholder that the archive did not hold, and returns an archive with the
\* same members and contents
C21_RepairIdempotent ==
    /\ InSecondCall => /\ missing_files = <<>>
                       /\ repair_at # "clean"
                       /\ temp_dir \subseteq zip_ref.members
    /\ calls = 2 => /\ repair_result # None
                    /\ repaired_zip = zip_ref.members
                    /\ disk[repair_result] = Archive(zip_ref.members, {})

\* a second repair has returned, of an archive with a placeholder, a damaged
\* member and a reference left
C21_Witness ==
    /\ calls = 2
    /\ \E f, g, h \in repaired_zip : /\ f.content = "placeholder"
                                     /\ g.content = "damaged"
                                     /\ h.refs # {}

\* the first call has returned an archive
FirstRepaired == calls = 1 /\ repair_at = "done" /\ repair_result # None

\* C22: of the archive given, every member that extracts is in the repaired
\* archive with its content (but for the references clean_xml_references
\* removed), whatever happened to the members before it; every member that
\* does not extract is recorded as missing; in its place there is a
\* placeholder when it is an image, and no member when it is not
C22_MembersExtractedIndependently ==
    FirstRepaired =>
        \A m \in zip_ref.members :
            IF m.name \notin zip_ref.corrupt
            THEN \E f \in repaired_zip : /\ f.name = m.name
                                         /\ f.content = m.content
                                         /\ f.refs \subseteq m.refs
            ELSE /\ Matches(m.name, missing_files)
                 /\ IF IsImage(m.name)
                    THEN File(m.name, {}, "placeholder") \in repaired_zip
                    ELSE ~Present(m.name)

\* C23: a call that ends with a file that is no zip container, or with a .ppt
\* that was not normalized, returns None, and no file with a repaired name
\* has been written
C23_UnrepairableReturnsNone ==
    (repair_at = "done" /\ (IsLegacyPpt(repair_path) \/ ~IsZipFile(disk, repair_path)))
        => /\ repair_result = None
           /\ \A p \in DOMAIN disk : ~HasTag(p, "_repaired")
           /\ repaired_zip = {}

\* a .docx that is no zip container was given and the call has returned
C23_Witness ==
    /\ repair_at = "done"
    /\ repair_path.ext = ".docx"
    /\ ~IsZipFile(disk, repair_path)

\* C24: the archive returned is at another path than the file that was
\* opened, and that file is as it was when it was opened
C24_RepairedPathDiffers ==
    FirstRepaired => /\ repair_result # repair_path
                     /\ disk[repair_path] = zip_ref

(***************************************************************************)
(* Rasterization: not_pdf_to_images_webp_libreoffice from line 642,        *)
(* pdf_to_images_webp (lines 669-697), and the upload of lines 970-987     *)
(***************************************************************************)

\* the variables the rasterization does not touch
beside_raster == <<vars, supvars, queuevars, repairvars, sizevars, taskvars,
                  killvars, compvars>>

DEFAULT_MAX_SLIDES == 4

DEFAULT_MAX_PDF_PAGES == 3

\* the PDFs rendered have up to this many pages
MaxPages == 5

\* the pixel widths of pages rendered at PDF_DPI
Widths == {600, 800, 1600}

\* last_page with the limit of slides for a PDF too
LastPageSlides(office) == DEFAULT_MAX_SLIDES

\* last_page: max_slides of not_pdf_to_images_webp_libreoffice, max_pages of
\* pdf_to_images_webp, both left at their defaults by generate_docs_for_soff
LastPage(office) ==
    IF office THEN DEFAULT_MAX_SLIDES ELSE DEFAULT_MAX_PDF_PAGES

\* quality and max_width as generate_docs_for_soff passes them (lines 857-862
\* and 962-966); max_width is None for a PDF, which is 0 here
RasterArgs(office) ==
    IF office THEN [quality |-> 60, max_width |-> 800]
    ELSE [quality |-> 60, max_width |-> 0]

\* convert_from_path(pdf_path, first_page=1, last_page=last_page): the pages
\* 1..last_page that the PDF has
ConvertedPages(widths, last_page) ==
    [i \in 1..(IF Len(widths) < last_page THEN Len(widths) ELSE last_page)
        |-> [page |-> i, width |-> widths[i]]]

\* lines 652-655 and 686-689: the width the image is saved with
Resized(width, max_width) ==
    IF max_width # 0 /\ width > max_width THEN max_width ELSE width

\* lines 658 and 692: the quality the i-th image is saved with
SavedQuality(office, i, quality) ==
    IF office THEN (IF i = 1 THEN quality ELSE 5) ELSE quality

\* slide_{i}.webp or page_{i}.webp as it is written
SavedImage(office, i, img) ==
    [name |-> <<IF office THEN "slide" ELSE "page", i>>,
     page |-> img.page,
     width |-> Resized(img.width, RasterArgs(office).max_width),
     quality |-> SavedQuality(office, i, RasterArgs(office).quality)]

\* a PDF was produced by a backend, or the source of the job is a PDF
InitRaster ==
    /\ JobIdle
    /\ SupIdle
    /\ QueueIdle
    /\ RepairIdle
    /\ SizeIdle
    /\ TaskIdle
    /\ KillIdle /\ CompIdle
    /\ \E office \in BOOLEAN, n \in 1..MaxPages :
          \E widths \in [1..n -> Widths] :
              pdf_file = [office |-> office, widths |-> widths]
    /\ pages = <<>>
    /\ saved_paths = <<>>
    /\ raster_at = "convert"
    /\ patched = NoPatch

\* lines 642-648 and 678-683
ConvertFromPath ==
    /\ raster_at = "convert"
    /\ pages' = ConvertedPages(pdf_file.widths, LastPage(pdf_file.office))
    /\ raster_at' = "save"
    /\ UNCHANGED <<pdf_file, saved_paths, patched, beside_raster>>

\* lines 651-659 and 685-692: one round of the loop
SavePage ==
    /\ raster_at = "save"
    /\ pages # <<>>
    /\ saved_paths' = Append(saved_paths,
                             SavedImage(pdf_file.office, Len(saved_paths) + 1,
                                        Head(pages)))
    /\ pages' = Tail(pages)
    /\ UNCHANGED <<pdf_file, raster_at, patched, beside_raster>>

\* lines 666 and 694-697: the list of paths is returned
ReturnPaths ==
    /\ raster_at = "save"
    /\ pages = <<>>
    /\ raster_at' = "upload"
    /\ UNCHANGED <<pdf_file, pages, saved_paths, patched, beside_raster>>

\* lines 970-987: every path of image_paths is opened and sent, with
\* page_count = total_pages or len(pages); get_pdf_page_count gives None when
\* pdfinfo fails
Patch ==
    /\ raster_at = "upload"
    /\ \E info \in BOOLEAN :
          patched' = [files |-> saved_paths,
                      page_count |-> IF info THEN Len(pdf_file.widths)
                                     ELSE Len(saved_paths)]
    /\ raster_at' = "done"
    /\ UNCHANGED <<pdf_file, pages, saved_paths, beside_raster>>

NextRaster ==
    \/ ConvertFromPath
    \/ SavePage
    \/ ReturnPaths
    \/ Patch

SpecRaster == InitRaster /\ [][NextRaster]_<<rastervars, beside_raster>>

\* C25: the images uploaded are those of the pages 1..n in order, n the
\* smaller of the number of pages of the PDF and the maximum: 4 for a PDF
\* converted from an office document, 3 for a source that is a PDF
C25_ImagesAreFirstPages ==
    raster_at = "done" =>
        LET total == Len(pdf_file.widths)
            most == IF pdf_file.office THEN 4 ELSE 3
        IN /\ Len(patched.files) = IF total < most THEN total ELSE most
           /\ \A i \in DOMAIN patched.files : patched.files[i].page = i
           /\ patched.files = saved_paths

\* the images of a presentation of more pages than the maximum were uploaded
C25_Witness ==
    /\ raster_at = "done"
    /\ pdf_file.office
    /\ Len(pdf_file.widths) > 4
    /\ Len(patched.files) = 4

\* C26: of the images of a job the first has a higher quality than each
\* other one, and the image of a page rendered wider than 800 pixels is 800
\* pixels wide, whether the PDF comes from an office document or is the source
C26_FirstPageBestAndWidthCapped ==
    raster_at = "done" =>
        /\ \A i \in 2..Len(saved_paths) :
              saved_paths[1].quality > saved_paths[i].quality
        /\ \A i \in DOMAIN saved_paths :
              pdf_file.widths[i] > 800 => saved_paths[i].width = 800

(***************************************************************************)
(* The timeout of not_pdf_to_images_webp_libreoffice (lines 521-528)       *)
(***************************************************************************)

\* the variables the computation of the timeout does not touch
beside_size == <<vars, supvars, queuevars, repairvars, rastervars, taskvars,
                  killvars, compvars>>

\* the sizes of the files are multiples of a third of a megabyte, rounded down
SizeStep == MB \div 3

\* the largest file has this many thirds of a megabyte
MaxSizeSteps == 66

\* two calls, the file of the second at least as large as that of the first
InitSize ==
    /\ JobIdle
    /\ SupIdle
    /\ QueueIdle
    /\ RepairIdle
    /\ RasterIdle
    /\ TaskIdle
    /\ KillIdle /\ CompIdle
    /\ \E a, b \in 0..MaxSizeSteps :
          /\ a <= b
          /\ getsize = <<a * SizeStep, b * SizeStep>>
    /\ conversion_timeout = <<0, 0>>

\* lines 521-528 in call i
ComputeTimeout(i) ==
    /\ conversion_timeout[i] = 0
    /\ conversion_timeout' =
          [conversion_timeout EXCEPT ![i] = ConversionTimeout(getsize[i])]
    /\ UNCHANGED <<getsize, beside_size>>

NextSize == \E i \in 1..2 : ComputeTimeout(i)

SpecSize == InitSize /\ [][NextSize]_<<sizevars, beside_size>>

\* C27: the timeout is 120 s for a file of at most 5 MB; for a larger file it
\* is 600 s or 120 + floor((size in MB - 5) * 30) s, and never more than
\* 600 s; of two files the larger one has no smaller timeout
C27_TimeoutMonotoneAndCapped ==
    /\ \A i \in DOMAIN conversion_timeout :
          LET t == conversion_timeout[i]
              over == (getsize[i] - 5 * MB) * 30
          IN t # 0 =>
                /\ t <= 600
                /\ getsize[i] <= 5 * MB => t = 120
                /\ getsize[i] > 5 * MB =>
                      \/ t = 600 /\ over >= (600 - 120) * MB
                      \/ /\ (t - 120) * MB <= over
                         /\ over < (t - 120 + 1) * MB
    /\ \A i, j \in DOMAIN conversion_timeout :
          (conversion_timeout[i] # 0 /\ conversion_timeout[j] # 0
              /\ getsize[i] <= getsize[j])
                 => conversion_timeout[i] <= conversion_timeout[j]

\* the timeouts of a file between 5 MB and 21 MB and of a file beyond 21 MB
C27_Witness ==
    /\ conversion_timeout[1] > 120
    /\ conversion_timeout[1] < 600
    /\ conversion_timeout[2] = 600
    /\ getsize[2] > 21 * MB

(***************************************************************************)
(* convert_doc_task (celery_worker.py lines 21-43) with autoretry_for      *)
(***************************************************************************)

\* the variables the tasks do not touch
beside_task == <<vars, supvars, queuevars, repairvars, rastervars, sizevars,
                  killvars, compvars>>

\* int(os.getenv("CELERY_MAX_RETRIES", "4"))
MAX_RETRIES == 4

\* a task: its state, request.retries of its message, history: how often the
\* body has been started, what generate_docs_for_soff returned in the last
\* run and how that run ended
Task(state, retries, runs, success, ended) ==
    [state |-> state, retries |-> retries, runs |-> runs, success |-> success,
     ended |-> ended]

\* task.retry gives up when request.retries itself is beyond max_retries
MaxRetriesExceededLate(retries) == retries > MAX_RETRIES

\* task.retry(exc=exc): retries = request.retries + 1 is beyond max_retries,
\* exc is raised again and the task fails
MaxRetriesExceeded(retries) == retries + 1 > MAX_RETRIES

\* no task has been enqueued
InitTask ==
    /\ JobIdle
    /\ SupIdle
    /\ QueueIdle
    /\ RepairIdle
    /\ RasterIdle
    /\ SizeIdle
    /\ KillIdle /\ CompIdle
    /\ task = [d \in DocIds |-> Task("idle", 0, 0, "none", "none")]

\* enqueue_doc_id(doc_id): convert_doc_task.apply_async(args=(doc_id,))
Enqueue(d) ==
    /\ task[d].state = "idle"
    /\ task' = [task EXCEPT ![d].state = "PENDING"]
    /\ UNCHANGED beside_task

\* a worker takes the message, the first one or that of a retry when its
\* countdown is over
Start(d) ==
    /\ task[d].state \in {"PENDING", "RETRY"}
    /\ task' = [task EXCEPT ![d].state = "STARTED", ![d].runs = @ + 1]
    /\ UNCHANGED beside_task

\* lines 30-43 under autoretry_for=(RuntimeError,): the body returns when
\* generate_docs_for_soff returned a true value and raises RuntimeError
\* otherwise; the RuntimeError becomes a retry with request.retries + 1, or
\* the failure of the task
Run(d) ==
    /\ task[d].state = "STARTED"
    /\ \E success \in {"True", "False"} :
          task' = [task EXCEPT ![d] =
              IF success = "True"
              THEN Task("SUCCESS", @.retries, @.runs, success, "completed")
              ELSE IF MaxRetriesExceeded(@.retries)
                   THEN Task("FAILURE", @.retries, @.runs, success, "RuntimeError")
                   ELSE Task("RETRY", @.retries + 1, @.runs, success, "RuntimeError")]
    /\ UNCHANGED beside_task

NextTask == \E d \in DocIds : Enqueue(d) \/ Start(d) \/ Run(d)

SpecTask == InitTask /\ [][NextTask]_<<taskvars, beside_task>>

\* C28: a run of convert_doc_task ends in RuntimeError exactly when
\* generate_docs_for_soff returned a false value, and with status completed
\* otherwise; only a RuntimeError leads to a retry; the body of a task runs at
\* most 1 + MAX_RETRIES times; a task that has failed has run that often and
\* never runs again
C28_RetriesBounded ==
    /\ [](\A d \in DocIds :
             /\ task[d].ended = "RuntimeError" <=> task[d].success = "False"
             /\ task[d].ended = "completed" <=> task[d].success = "True"
             /\ task[d].state = "SUCCESS" <=> (task[d].ended = "completed")
             /\ task[d].state = "RETRY" => task[d].ended = "RuntimeError"
             /\ task[d].runs <= 1 + 4
             /\ task[d].state = "FAILURE" => /\ task[d].runs = 1 + 4
                                             /\ task[d].ended = "RuntimeError")
    /\ [][\A d \in DocIds :
             task[d].state \in {"FAILURE", "SUCCESS"} => task'[d] = task[d]]_task

\* one task has failed after its last retry, another has succeeded in a retry
C28_Witness ==
    \E d, e \in DocIds :
        /\ task[d].state = "FAILURE"
        /\ task[e].state = "SUCCESS"
        /\ task[e].retries > 0

(***************************************************************************)
(* cleanup_libreoffice_processes (lines 342-353) among the workers of      *)
(* process_doc_poster_generate_queue, each in its own job                  *)
(***************************************************************************)

\* the variables the children of the workers do not touch
beside_kill == <<vars, supvars, queuevars, repairvars, rastervars, sizevars,
                 taskvars, compvars>>

\* the worker processes that run jobs at the same time
MaxConcurrent == 3

\* killed_by of a child no pkill has ended
NoKiller == 0

\* the attempt a worker is in, its child, and the worker whose pkill ended it
Conv(at, alive, killed_by) == [at |-> at, alive |-> alive, killed_by |-> killed_by]

\* pkill -9 -f soffice and pkill -9 unoconv, called by worker w: SIGKILL for
\* every process of the machine whose command line holds soffice or whose
\* name is unoconv
Pkill(c, w) ==
    [v \in DOMAIN c |->
        IF c[v].alive
        THEN [c[v] EXCEPT !.alive = FALSE, !.killed_by = w] ELSE c[v]]

\* every worker is in a job and has no child
InitKill ==
    /\ JobIdle
    /\ SupIdle
    /\ QueueIdle
    /\ RepairIdle
    /\ RasterIdle
    /\ SizeIdle
    /\ TaskIdle
    /\ CompIdle
    /\ conv = [w \in 1..MaxConcurrent |-> Conv("idle", FALSE, NoKiller)]

\* docx_to_pdf_unoconv, lines 361-388: cleanup_libreoffice_processes(), then
\* 'which unoconv', then Popen unless unoconv is not installed
StartUnoconv(w) ==
    /\ conv[w].at = "idle"
    /\ \E available \in BOOLEAN :
          conv' = [Pkill(conv, w) EXCEPT ![w] =
                      IF available THEN Conv("unoconv", TRUE, NoKiller)
                      ELSE Conv("idle", FALSE, NoKiller)]
    /\ UNCHANGED beside_kill

\* lines 395-417: the timeout of unoconv; the own child is terminated or
\* killed, then cleanup_libreoffice_processes() is called
UnoconvTimedOut(w) ==
    /\ conv[w].at = "unoconv"
    /\ conv[w].alive
    /\ conv' = [Pkill(conv, w) EXCEPT ![w] = Conv("idle", FALSE, w)]
    /\ UNCHANGED beside_kill

\* lines 581-595: Popen of soffice
StartSoffice(w) ==
    /\ conv[w].at = "idle"
    /\ conv' = [conv EXCEPT ![w] = Conv("soffice", TRUE, NoKiller)]
    /\ UNCHANGED beside_kill

\* process.poll() is not None: the child has exited or was killed, the
\* attempt ends
ChildEnded(w) ==
    /\ conv[w].at \in {"unoconv", "soffice"}
    /\ conv' = [conv EXCEPT ![w].at = "idle", ![w].alive = FALSE]
    /\ UNCHANGED beside_kill

NextKill ==
    \E w \in 1..MaxConcurrent :
        \/ StartUnoconv(w)
        \/ UnoconvTimedOut(w)
        \/ StartSoffice(w)
        \/ ChildEnded(w)

SpecKill == InitKill /\ [][NextKill]_<<killvars, beside_kill>>

\* C32: the child of a worker is ended by no pkill of another worker
C32_CleanupSparesOtherJobs ==
    \A v \in DOMAIN conv : conv[v].killed_by \in {NoKiller, v}

(***************************************************************************)
(* Compression of the source: compress_pptx_file, compress_docx_file and   *)
(* the choice of file_to_convert (new_docx2pdf.py, lines 62-340, 842-854)  *)
(***************************************************************************)

\* the variables the compression does not touch
beside_comp == <<vars, supvars, queuevars, repairvars, rastervars, sizevars,
                 taskvars, killvars>>

\* `if file_size < 3 * 1024 * 1024: return None`
MinCompressSize == 3 * MB

\* `if file_size > 50 * 1024 * 1024: return None`
MaxCompressSize == 50 * MB

\* a size of which 3% is a whole number of bytes
RoundSize == 10000000

\* os.path.getsize(temp_path) of the downloaded copy
SourceSizes ==
    {MinCompressSize - 1, MinCompressSize, MinCompressSize + 1, RoundSize,
     MaxCompressSize - 1, MaxCompressSize, MaxCompressSize + 1}

\* os.path.getsize(compressed_path): the size the tool leaves, around the
\* 3% mark, unchanged, larger, and a tenth smaller
CompressedSizes(original_size) ==
    LET mark == (3 * original_size) \div 100
    IN  {original_size + 1, original_size, original_size - (mark - 1),
         original_size - mark, original_size - (mark + 1),
         original_size - original_size \div 10}

\* what running the compression does: compress-pptx is not installed,
\* returncode != 0 or an exception, TimeoutExpired or the timeout check of
\* the image loop, no output file, or an output file
Outcomes(file_type) ==
    IF file_type = ".pptx"
    THEN {"missing", "failed", "timeout", "not_created", "ok"}
    ELSE IF file_type = ".docx" THEN {"failed", "timeout", "ok"}
    ELSE {"ok"}

\* the window with the two limits left out
InWindowExclusive(file_size) ==
    /\ file_size > MinCompressSize
    /\ file_size < MaxCompressSize

\* lines 90-95 and 205-210: neither `file_size < 3 MB` nor `file_size > 50 MB`
InWindow(file_size) ==
    /\ ~(file_size < MinCompressSize)
    /\ ~(file_size > MaxCompressSize)

\* lines 153-154 and 320-321: reduction = ((original_size - compressed_size)
\* / original_size) * 100; `reduction < 3`.  For sizes below 2^53 the
\* quotient is 0.03 rounded exactly when the reduction is 3%, and it is
\* farther from 0.03 than the rounding error otherwise, so the comparison
\* of floats is the comparison of the integers
NotEffective(original_size, compressed_size) ==
    (original_size - compressed_size) * 100 < 3 * original_size

\* the body shared by compress_pptx_file and compress_docx_file: what is
\* returned for this source when the function's switch is `enable`
CompressFile(src, enable, compressed_path) ==
    IF ~enable THEN Variant(None, FALSE, TRUE)
    ELSE IF ~InWindow(src.file_size) THEN Variant(None, FALSE, TRUE)
    ELSE IF src.tool # "ok" THEN Variant(None, FALSE, TRUE)
    ELSE IF NotEffective(src.file_size, src.compressed_size)
         THEN Variant(None, FALSE, TRUE)
    ELSE Variant(compressed_path, TRUE, TRUE)

InitComp ==
    /\ JobIdle
    /\ SupIdle
    /\ QueueIdle
    /\ RepairIdle
    /\ RasterIdle
    /\ SizeIdle
    /\ TaskIdle
    /\ KillIdle
    /\ \E file_type \in FileTypes, file_size \in SourceSizes,
          enable_pptx \in BOOLEAN, enable_docx \in BOOLEAN :
          \E tool \in Outcomes(file_type),
             compressed_size \in CompressedSizes(file_size) :
             source = Source(file_type, file_size, enable_pptx, enable_docx,
                             tool, compressed_size)
    /\ variant = Variant(None, FALSE, FALSE)
    /\ first_run = None

\* lines 845-846: compressed = compress_pptx_file(temp_path)
CompressPptxFile ==
    /\ ~variant.done
    /\ source.file_type = ".pptx"
    /\ variant' = CompressFile(source, source.enable_pptx,
                               CompressedPptxPath(TempPath(source.file_type)))
    /\ UNCHANGED <<source, first_run>>
    /\ UNCHANGED beside_comp

\* lines 850-851: compressed = compress_docx_file(temp_path)
CompressDocxFile ==
    /\ ~variant.done
    /\ source.file_type = ".docx"
    /\ variant' = CompressFile(source, source.enable_docx,
                               CompressedDocxPath(TempPath(source.file_type)))
    /\ UNCHANGED <<source, first_run>>
    /\ UNCHANGED beside_comp

\* lines 842-855 for .ppt and .doc: neither branch is taken, compressed
\* stays None
NotCompressed ==
    /\ ~variant.done
    /\ source.file_type \in OfficeTypes \ {".pptx", ".docx"}
    /\ variant' = Variant(None, FALSE, TRUE)
    /\ UNCHANGED <<source, first_run>>
    /\ UNCHANGED beside_comp

\* lines 844-862: file_to_convert = temp_path, replaced by compressed `if
\* compressed and os.path.exists(compressed)`, is given to the first run
FirstRun ==
    /\ variant.done
    /\ first_run = None
    /\ first_run' = IF variant.returned # None /\ variant.on_disk
                    THEN variant.returned
                    ELSE TempPath(source.file_type)
    /\ UNCHANGED <<source, variant>>
    /\ UNCHANGED beside_comp

NextComp ==
    \/ CompressPptxFile
    \/ CompressDocxFile
    \/ NotCompressed
    \/ FirstRun

SpecCompress == InitComp /\ [][NextComp]_<<compvars, beside_comp>>

\* C34: a variant is returned only for a .pptx or .docx source of 3 MB to
\* 50 MB, both limits included, whose variant is at least 3% smaller, and
\* for every such source whose compression is switched on and leaves a
\* file; the first run is given the variant when there is one and the
\* original otherwise
C34_VariantWindowAndFirstRun ==
    /\ variant.done =>
          /\ variant.returned # None =>
                /\ source.file_type \in {".pptx", ".docx"}
                /\ source.file_size >= 3 * 1024 * 1024
                /\ source.file_size <= 50 * 1024 * 1024
                /\ (source.file_size - source.compressed_size) * 100
                      >= 3 * source.file_size
                /\ variant.returned # TempPath(source.file_type)
                /\ variant.on_disk
          /\ ( /\ source.file_type \in {".pptx", ".docx"}
               /\ IF source.file_type = ".pptx" THEN source.enable_pptx
                                                ELSE source.enable_docx
               /\ source.tool = "ok"
               /\ source.file_size >= 3 * 1024 * 1024
               /\ source.file_size <= 50 * 1024 * 1024
               /\ (source.file_size - source.compressed_size) * 100
                     >= 3 * source.file_size )
             => variant.returned # None
    /\ first_run # None =>
          /\ variant.done
          /\ first_run = IF variant.returned # None THEN variant.returned
                         ELSE TempPath(source.file_type)

\* the first run is given the variant of a source of exactly 50 MB
C34_Witness ==
    /\ first_run # None
    /\ first_run = variant.returned
    /\ source.file_size = 50 * 1024 * 1024
====
